---- MODULE Spec2Model ----
(***************************************************************************)
(* Model of Celestia's star database (stardb.cpp): cross-index tables,     *)
(* the binary catalog loader, the text (.stc) catalog merger with its      *)
(* Add / Replace / Modify dispositions, the deferred barycenter list and   *)
(* finish().                                                               *)
(*                                                                         *)
(* Pointers to Star objects are positions in the collection that owns the  *)
(* object (unsortedStars while loading, stars after finish()); pointers to *)
(* StarDetails are keys of the function `details`.                         *)
(***************************************************************************)
EXTENDS Integers, Sequences, FiniteSets, TLC

VARIABLES
    crossIndexes,               \* catalog kind -> slot holding a CrossIndex*
    unsortedStars,              \* BlockArray<Star> filled while loading
    nStars,                     \* running star count
    binFileCatalogNumberIndex,  \* Star** sorted by catalog number, or null/freed
    stcFileCatalogNumberIndex,  \* map catalog number -> Star*
    barycenters,                \* vector<BarycenterUsage>
    nextAutoCatalogNumber,      \* counter for automatically numbered stars
    namesDB,                    \* StarNameDatabase* (set or not) and its <<number, name>> entries
    details,                    \* heap of StarDetails records
    stars,                      \* flat array built by buildOctree
    catalogNumberIndex,         \* Star** sorted by catalog number (buildIndexes)
    phase,                      \* "loading" or "finished"
    assertFailed,               \* an assert() of finish() did not hold
    nOps,                       \* number of load operations so far
    last,                       \* the last operation, its input and its result
    log                         \* the operations so far, in order (when kept)

vars == <<crossIndexes, unsortedStars, nStars, binFileCatalogNumberIndex,
          stcFileCatalogNumberIndex, barycenters, nextAutoCatalogNumber,
          namesDB, details, stars, catalogNumberIndex, phase, assertFailed,
          nOps, last, log>>

dbVars == <<unsortedStars, nStars, binFileCatalogNumberIndex,
            stcFileCatalogNumberIndex, barycenters, nextAutoCatalogNumber,
            namesDB, details, stars, catalogNumberIndex, phase, assertFailed>>

----------------------------------------------------------------------------
(* Bounds of the model *)

\* AstroCatalog::IndexNumber is an unsigned integer of this many bits (32
\* in the program; the numbers of the model stay below 2^31)
IndexBits == 29

\* load operations (loadBinary, load) before finish()
MaxOps == 2

\* stars in the database
MaxStars == 2

\* pairs in one cross-index stream
MaxPairs == 2

\* external and internal numbers that occur in cross-index streams
MaxXNum == 2

----------------------------------------------------------------------------
(* Generic helpers *)

\* A null pointer (to a Star, or to a StarDetails)
nullptr == 0

\* An absent optional value is the empty sequence, a present one <<v>>
None == <<>>

Some(v) == <<v>>

IsSome(o) == o # <<>>

TheValue(o) == o[1]

InvalidIndex == 2^IndexBits - 1

Min(S) == CHOOSE x \in S : \A y \in S : x <= y

\* The permutations of 1..n
Perms(n) == {f \in [1..n -> 1..n] : \A i, j \in 1..n : f[i] = f[j] => i = j}

\* std::sort by key: every arrangement of s that is ordered by key. The
\* order of elements with equal keys is unspecified (std::sort is unstable).
\* keys is the sequence of the keys of the elements.
IsSorted(keys) == \A i, j \in 1..Len(keys) : i < j => keys[i] <= keys[j]

Arrangements(s) == {[i \in 1..Len(s) |-> s[p[i]]] : p \in Perms(Len(s))}

\* std::lower_bound on a range partitioned by key: the first position whose
\* key is not less than n, Len(s) + 1 (the end iterator) when there is none.
LowerBound(keys, n) ==
    LET hits == {i \in 1..Len(keys) : ~(keys[i] < n)}
    IN  IF hits = {} THEN Len(keys) + 1 ELSE Min(hits)

----------------------------------------------------------------------------
(* Cross-index tables *)

HenryDraper == 0
SAO == 2
MaxCatalog == 3

XNums == 1..MaxXNum

\* A CrossIndexEntry
XEntry(ext, int) == [catalogNumber |-> ext, celCatalogNumber |-> int]

XKey(e) == e.catalogNumber

XKeys(xindex) == [i \in 1..Len(xindex) |-> XKey(xindex[i])]

\* std::sort(xindex->begin(), xindex->end()): the arrangements it can leave
sortXIndex(xindex) == {t \in Arrangements(xindex) : IsSorted(XKeys(t))}

\* What reading a cross-index stream yields: whether the 8 header bytes are
\* there and equal CELINDEX, the version word ("ok", "bad" or "missing"),
\* the complete pairs, and where the stream ends: at a pair boundary
\* ("none"), inside an external number ("ext") or after a complete external
\* number but before a complete internal number ("int").
XStream(pairs, cut) == [header |-> TRUE, version |-> "ok", pairs |-> pairs, cut |-> cut]

XPairSeqs(n) == UNION {[1..k -> {XEntry(e, c) : e \in XNums, c \in XNums}] : k \in 0..n}

XStreams ==
    {XStream(pairs, "none") : pairs \in XPairSeqs(MaxPairs)}
    \cup {XStream(pairs, cut) : pairs \in XPairSeqs(1), cut \in {"ext", "int"}}
    \cup {[XStream(<<>>, "none") EXCEPT !.header = FALSE]}
    \cup {[XStream(<<>>, "none") EXCEPT !.version = v] : v \in {"bad", "missing"}}

\* The calls of loadCrossIndex: every stream for the Henry Draper catalog,
\* a few for the SAO catalog and for a catalog kind out of range
XLoads ==
    {<<HenryDraper, stream>> : stream \in XStreams}
    \cup {<<catalog, stream>> :
             catalog \in {SAO, MaxCatalog},
             stream \in {XStream(<<XEntry(1, 2)>>, "none"), XStream(<<>>, "int")}}

NullSlot == [state |-> "null", table |-> <<>>]

\* The record loop of loadCrossIndex: TRUE when the loop leaves through
\* `break`. A read that ends inside the external number sets eofbit, so the
\* loop breaks; a read that fails on the internal number returns false.
XReadLoopBreaks(stream) == stream.cut \in {"none", "ext"}

\* loadCrossIndex without the sort: the table keeps the order of the stream
loadCrossIndexUnsorted(slots, catalog, stream, sorted) ==
    IF catalog >= MaxCatalog \/ ~stream.header \/ stream.version # "ok"
       \/ ~XReadLoopBreaks(stream)
    THEN [ret |-> FALSE, slots |-> slots]
    ELSE [ret |-> TRUE,
          slots |-> [slots EXCEPT ![catalog] =
                        [state |-> "valid", table |-> stream.pairs]]]

\* loadCrossIndex(catalog, in); sorted is the arrangement std::sort leaves.
\* Returns the result and the new slots.
loadCrossIndex(slots, catalog, stream, sorted) ==
    IF catalog >= MaxCatalog
    THEN [ret |-> FALSE, slots |-> slots]
    ELSE LET \* delete crossIndexes[catalog]: the slot keeps the pointer
             deleted == IF slots[catalog].state = "null"
                        THEN slots
                        ELSE [slots EXCEPT ![catalog] = [state |-> "freed", table |-> <<>>]]
         IN  IF ~stream.header \/ stream.version # "ok"
             THEN [ret |-> FALSE, slots |-> deleted]
             ELSE IF ~XReadLoopBreaks(stream)
             THEN [ret |-> FALSE, slots |-> deleted]
             ELSE [ret |-> TRUE,
                   slots |-> [deleted EXCEPT ![catalog] =
                                 [state |-> "valid", table |-> sorted]]]

\* crossIndex(catalog, celCatalogNumber): linear search for the internal number
crossIndex(slots, catalog, celCatalogNumber) ==
    IF catalog >= MaxCatalog THEN InvalidIndex
    ELSE IF slots[catalog].state = "null" THEN InvalidIndex
    ELSE LET xindex == slots[catalog].table
             hits == {i \in 1..Len(xindex) : xindex[i].celCatalogNumber = celCatalogNumber}
         IN  IF hits # {} THEN xindex[Min(hits)].catalogNumber ELSE InvalidIndex

\* searchCrossIndexForCatalogNumber(catalog, number): binary search
searchCrossIndexForCatalogNumber(slots, catalog, number) ==
    IF catalog >= MaxCatalog THEN InvalidIndex
    ELSE IF slots[catalog].state = "null" THEN InvalidIndex
    ELSE LET xindex == slots[catalog].table
             iter == LowerBound(XKeys(xindex), number)
         IN  IF iter = Len(xindex) + 1 \/ xindex[iter].catalogNumber # number
             THEN InvalidIndex
             ELSE xindex[iter].celCatalogNumber

----------------------------------------------------------------------------
(* Names and catalog-number syntax *)

\* A name is a sequence of characters.
IsSpace(c) == c = " "

IsDigit(c) == c \in {"0", "1", "2", "3", "4", "5", "6", "7", "8", "9"}

DigitVal(c) ==
    CASE c = "0" -> 0 [] c = "1" -> 1 [] c = "2" -> 2 [] c = "3" -> 3
      [] c = "4" -> 4 [] c = "5" -> 5 [] c = "6" -> 6 [] c = "7" -> 7
      [] c = "8" -> 8 [] c = "9" -> 9

ToUpper(c) ==
    CASE c = "h" -> "H" [] c = "i" -> "I" [] c = "p" -> "P" [] c = "d" -> "D"
      [] c = "t" -> "T" [] c = "y" -> "Y" [] c = "c" -> "C" [] c = "s" -> "S"
      [] c = "a" -> "A" [] c = "o" -> "O" [] OTHER -> c

\* compareIgnoringCase(name, prefix, n) == 0
HasPrefixIgnoringCase(name, prefix) ==
    /\ Len(name) >= Len(prefix)
    /\ \A i \in 1..Len(prefix) : ToUpper(name[i]) = ToUpper(prefix[i])

\* The position after any white space of s starting at i
RECURSIVE SkipSpace(_, _)
SkipSpace(s, i) == IF i <= Len(s) /\ IsSpace(s[i]) THEN SkipSpace(s, i + 1) ELSE i

\* The position after the digits of s starting at i
RECURSIVE SkipDigits(_, _)
SkipDigits(s, i) == IF i <= Len(s) /\ IsDigit(s[i]) THEN SkipDigits(s, i + 1) ELSE i

\* The value of the digits s[i..j-1], as an unsigned int of IndexBits bits
RECURSIVE DigitsValue(_, _, _, _)
DigitsValue(s, i, j, acc) ==
    IF i >= j THEN acc
    ELSE DigitsValue(s, i + 1, j, (acc * 10 + DigitVal(s[i])) % (2^IndexBits))

\* scanf's %u at position i: leading white space, then at least one digit
ScanUnsigned(s, i) ==
    LET b == SkipSpace(s, i)
        e == SkipDigits(s, b)
    IN  [ok |-> e > b, val |-> DigitsValue(s, b, e, 0), next |-> e]

\* What is left of a format " %u %c" or "#%u %c" after the number: the
\* conversion count is 1 exactly when no character follows the white space
ScanNumberOnly(s, i) ==
    LET u == ScanUnsigned(s, i)
    IN  IF u.ok /\ SkipSpace(s, u.next) > Len(s)
        THEN [ok |-> TRUE, val |-> u.val]
        ELSE [ok |-> FALSE, val |-> 0]

HIPPARCOSCatalogPrefix == <<"H", "I", "P", " ">>
HDCatalogPrefix == <<"H", "D", " ">>
SAOCatalogPrefix == <<"S", "A", "O", " ">>

\* parseSimpleCatalogNumber(name, prefix, &catalogNumber)
parseSimpleCatalogNumber(name, prefix) ==
    IF HasPrefixIgnoringCase(name, prefix)
    THEN ScanNumberOnly(name, Len(prefix) + 1)
    ELSE [ok |-> FALSE, val |-> 0]

\* parseCelestiaCatalogNumber(name, &catalogNumber): "#%u %c"; %u itself
\* skips white space after the '#'
parseCelestiaCatalogNumber(name) ==
    IF Len(name) >= 1 /\ name[1] = "#"
    THEN ScanNumberOnly(name, 2)
    ELSE [ok |-> FALSE, val |-> 0]

TychoCatalogPrefix == <<"T", "Y", "C", " ">>

TycFactor3 == 1000000000
TycFactor2 == 10000

\* The "-%u" of the format after the conversion t: fails when t failed or
\* no '-' follows it
ScanAfterDash(name, t) ==
    IF t.ok /\ t.next <= Len(name) /\ name[t.next] = "-"
    THEN ScanUnsigned(name, t.next + 1)
    ELSE [ok |-> FALSE, val |-> 0, next |-> 0]

\* The packing with the first and the third number exchanged
TychoNumberSwapped(tyc1, tyc2, tyc3) ==
    IF tyc3.ok
    THEN [ok |-> TRUE,
          val |-> (tyc1.val * (TycFactor3 % (2^IndexBits))
                   + tyc2.val * (TycFactor2 % (2^IndexBits)) + tyc3.val)
                     % (2^IndexBits)]
    ELSE [ok |-> FALSE, val |-> 0]

\* line 155: the number packed from the three conversions
TychoNumber(tyc1, tyc2, tyc3) ==
    IF tyc3.ok
    THEN [ok |-> TRUE,
          val |-> (tyc3.val * (TycFactor3 % (2^IndexBits))
                   + tyc2.val * (TycFactor2 % (2^IndexBits)) + tyc1.val)
                     % (2^IndexBits)]
    ELSE [ok |-> FALSE, val |-> 0]

ScanTycho3(name, tyc1, tyc2) == TychoNumber(tyc1, tyc2, ScanAfterDash(name, tyc2))

ScanTycho2(name, tyc1) == ScanTycho3(name, tyc1, ScanAfterDash(name, tyc1))

\* parseTychoCatalogNumber(name, &catalogNumber): " %u-%u-%u" after the
\* prefix; nothing is required of what follows the third number
parseTychoCatalogNumber(name) ==
    IF ~HasPrefixIgnoringCase(name, TychoCatalogPrefix)
    THEN [ok |-> FALSE, val |-> 0]
    ELSE ScanTycho2(name, ScanUnsigned(name, Len(TychoCatalogPrefix) + 1))

----------------------------------------------------------------------------
(* Stars and their details *)

\* Positions are kept as the equatorial coordinates <<ra, dec, distance>>
\* they were computed from; every direction at distance 0 is the origin.
Origin == <<0, 0, 0>>

\* astro::equatorialToCelestialCart(ra, dec, distance)
equatorialToCelestialCart(ra, dec, distance) ==
    IF distance = 0 THEN Origin ELSE <<ra, dec, distance>>

\* Star::getPosition().norm()
Norm(position) == position[3]

\* The StarDetails records every star of a class shares. Key 1 is
\* StarDetails::GetBarycenterDetails(), the others are GetStarDetails(sc).
BarycenterKey == 1

StarDetailsRecord(class, isShared) ==
    [shared |-> isShared, spectralType |-> class,
     temperature |-> <<"class", class>>, texture |-> <<"class", class>>,
     knowTexture |-> FALSE, radius |-> None, orbit |-> None,
     orbitBarycenter |-> nullptr, orbitingStars |-> <<>>]

SharedDetails ==
    <<StarDetailsRecord("Bary", TRUE), StarDetailsRecord("G2V", TRUE),
      StarDetailsRecord("M5V", TRUE)>>

SharedKeys == 1..Len(SharedDetails)

\* StarDetails::GetStarDetails(StellarClass::parse(spectralType)): the key
\* of the shared record of the class, nullptr for a class that does not exist
GetStarDetails(spectralType) ==
    LET hits == {k \in SharedKeys \ {BarycenterKey} :
                     SharedDetails[k].spectralType = spectralType}
    IN  IF hits = {} THEN nullptr ELSE Min(hits)

\* A default-constructed Star
NewStar == [index |-> InvalidIndex, position |-> Origin,
            absMag |-> <<"default">>, details |-> nullptr]

StarKey(star) == star.index

\* The database as one record, for the operators below
DB == [unsortedStars |-> unsortedStars, nStars |-> nStars,
       binFileCatalogNumberIndex |-> binFileCatalogNumberIndex,
       stcFileCatalogNumberIndex |-> stcFileCatalogNumberIndex,
       barycenters |-> barycenters,
       nextAutoCatalogNumber |-> nextAutoCatalogNumber,
       namesDB |-> namesDB, details |-> details, stars |-> stars,
       catalogNumberIndex |-> catalogNumberIndex, phase |-> phase,
       assertFailed |-> assertFailed, crossIndexes |-> crossIndexes]

\* The pointer array ptrs, as the catalog numbers of the stars of arr it
\* points to
PtrKeys(arr, ptrs) == [i \in 1..Len(ptrs) |-> arr[ptrs[i]].index]

\* find(catalogNumber): binary search of catalogNumberIndex; a position in
\* stars, or nullptr
find(s, catalogNumber) ==
    LET keys == PtrKeys(s.stars, s.catalogNumberIndex)
        i == LowerBound(keys, catalogNumber)
    IN  IF i # Len(keys) + 1 /\ keys[i] = catalogNumber
        THEN s.catalogNumberIndex[i]
        ELSE nullptr

\* findWhileLoading(catalogNumber): a position in unsortedStars, or nullptr
findWhileLoading(s, catalogNumber) ==
    LET bin == s.binFileCatalogNumberIndex
        keys == PtrKeys(s.unsortedStars, bin.ptrs)
        i == LowerBound(keys, catalogNumber)
    IN  IF bin.state # "null" /\ i # Len(keys) + 1 /\ keys[i] = catalogNumber
        THEN bin.ptrs[i]
        ELSE IF catalogNumber \in DOMAIN s.stcFileCatalogNumberIndex
        THEN s.stcFileCatalogNumberIndex[catalogNumber]
        ELSE nullptr

\* StarNameDatabase::findCatalogNumberByName(name)
NamesDBFind(db, name) ==
    LET hits == {e[1] : e \in {x \in db : x[2] = name}}
    IN  IF hits = {} THEN InvalidIndex ELSE Min(hits)

\* StarNameDatabase::erase(catalogNumber)
NamesDBErase(db, catalogNumber) == {e \in db : e[1] # catalogNumber}

\* StarNameDatabase::add(catalogNumber, name): empty names are skipped
NamesDBAdd(db, catalogNumber, name) ==
    IF name = <<>> THEN db ELSE db \cup {<<catalogNumber, name>>}

\* lines 234-260: the first of the catalog number formats that parses
NumberOfFormat(s, celestia, hipparcos, tycho, hd, sao) ==
    IF celestia.ok THEN celestia.val
    ELSE IF hipparcos.ok THEN hipparcos.val
    ELSE IF tycho.ok THEN tycho.val
    ELSE IF hd.ok
    THEN searchCrossIndexForCatalogNumber(s.crossIndexes, HenryDraper, hd.val)
    ELSE IF sao.ok
    THEN searchCrossIndexForCatalogNumber(s.crossIndexes, SAO, sao.val)
    ELSE InvalidIndex

\* The catalog number formats coming before the name database
NumberOfNameParsedFirst(byName, parsed) ==
    IF parsed # InvalidIndex THEN parsed ELSE byName

\* lines 229-233: the name database comes first
NumberOfName(byName, parsed) == IF byName # InvalidIndex THEN byName ELSE parsed

\* findCatalogNumberByName(name, i18n)
findCatalogNumberByName(s, name) ==
    IF name = <<>> THEN InvalidIndex
    ELSE NumberOfName(
             IF s.namesDB.set THEN NamesDBFind(s.namesDB.names, name) ELSE InvalidIndex,
             NumberOfFormat(s, parseCelestiaCatalogNumber(name),
                            parseSimpleCatalogNumber(name, HIPPARCOSCatalogPrefix),
                            parseTychoCatalogNumber(name),
                            parseSimpleCatalogNumber(name, HDCatalogPrefix),
                            parseSimpleCatalogNumber(name, SAOCatalogPrefix)))

----------------------------------------------------------------------------
(* createStar *)

\* A property list (Hash) of a star definition. Of the extended attributes
\* Texture, Radius and Temperature are modelled; Mesh, SemiAxes,
\* BoloCorrection, InfoURL and the rotation model take the same path as
\* Radius. OrbitBarycenter is <<"name", chars>> or <<"number", n>>.
EmptyHash ==
    [SpectralType |-> None, Texture |-> None, Radius |-> None,
     Temperature |-> None, Orbit |-> None, OrbitBarycenter |-> None,
     RA |-> None, Dec |-> None, Distance |-> None, AbsMag |-> None,
     AppMag |-> None, Extinction |-> None]

\* lines 813-843: the details record createStar goes on with, and the heap
\* after the spectral type was copied into a customized record
ModifyExistingDetails(heap, star, disposition) ==
    disposition = "Modify" /\ ~heap[star.details].shared

MergeSpectralType(heap, existing, d) ==
    [heap EXCEPT ![existing] =
        [@ EXCEPT !.spectralType = heap[d].spectralType,
                  !.temperature = heap[d].temperature,
                  !.texture = IF heap[existing].knowTexture THEN @
                              ELSE heap[d].texture]]

\* createStar without the clone: the record at hand is customized
CloneDetailsNever(heap, d, modifyExistingDetails) == [heap |-> heap, details |-> d]

\* lines 890-895: clone the details unless a customized record is modified
\* in place. A clone is a new, non-shared record at the end of the heap.
CloneDetails(heap, d, modifyExistingDetails) ==
    IF modifyExistingDetails
    THEN [heap |-> heap, details |-> d]
    ELSE [heap |-> Append(heap, [heap[d] EXCEPT !.shared = FALSE]),
          details |-> Len(heap) + 1]

\* lines 897-953: the setters of the extended attributes
SetExtended(rec, starData, hasTemperature) ==
    LET a == IF IsSome(starData.Texture)
             THEN [rec EXCEPT !.texture = <<"file", TheValue(starData.Texture)>>,
                              !.knowTexture = TRUE]
             ELSE rec
        b == IF IsSome(starData.Radius)
             THEN [a EXCEPT !.radius = starData.Radius] ELSE a
        c == IF hasTemperature
             THEN [b EXCEPT !.temperature = <<"given", TheValue(starData.Temperature)>>]
             ELSE b
    IN  IF IsSome(starData.Orbit) THEN [c EXCEPT !.orbit = starData.Orbit] ELSE c

\* lines 955-967: the catalog number OrbitBarycenter names
BarycenterCatNo(s, starData) ==
    LET b == TheValue(starData.OrbitBarycenter)
    IN  IF b[1] = "name" THEN findCatalogNumberByName(s, b[2]) ELSE b[2]

\* lines 969-981: is the pair queued in `barycenters`?
QueuesBarycenter(starData, barycenterCatNo) ==
    /\ IsSome(starData.Orbit)
    /\ IsSome(starData.OrbitBarycenter)
    /\ barycenterCatNo # InvalidIndex

\* lines 1012-1092: the position, or failure for a missing coordinate
StarPosition(star, disposition, starData, hasBarycenter, barycenterPosition) ==
    LET cur == star.position
        missing == \/ ~IsSome(starData.RA)
                   \/ ~IsSome(starData.Dec)
                   \/ ~IsSome(starData.Distance)
        modifyPosition == \/ IsSome(starData.RA)
                          \/ IsSome(starData.Dec)
                          \/ IsSome(starData.Distance)
        \* for Modify the defaults are the current position taken apart
        ra == IF IsSome(starData.RA) THEN TheValue(starData.RA) ELSE cur[1]
        dec == IF IsSome(starData.Dec) THEN TheValue(starData.Dec) ELSE cur[2]
        distance == IF IsSome(starData.Distance) THEN TheValue(starData.Distance)
                    ELSE cur[3]
    IN  IF hasBarycenter THEN [ok |-> TRUE, position |-> barycenterPosition]
        ELSE IF disposition # "Modify" /\ missing
        THEN [ok |-> FALSE, position |-> cur]
        ELSE IF modifyPosition
        THEN [ok |-> TRUE, position |-> equatorialToCelestialCart(ra, dec, distance)]
        ELSE [ok |-> TRUE, position |-> cur]

\* lines 1100-1131: the magnitude of AbsMag or AppMag, or failure.
\* astro::appToAbsMag of an apparent magnitude and a distance is kept as the
\* pair it is computed from.
MagnitudeGiven(star, disposition, starData) ==
    IF IsSome(starData.AbsMag)
    THEN [ok |-> TRUE, absMag |-> <<"abs", TheValue(starData.AbsMag)>>]
    ELSE IF IsSome(starData.AppMag)
    THEN IF Norm(star.position) = 0
         THEN [ok |-> FALSE, absMag |-> star.absMag]
         ELSE [ok |-> TRUE,
               absMag |-> <<"app", TheValue(starData.AppMag), Norm(star.position)>>]
    ELSE IF disposition # "Modify"
    THEN [ok |-> FALSE, absMag |-> star.absMag]
    ELSE [ok |-> TRUE, absMag |-> star.absMag]

\* lines 1133-1143: the extinction is taken off a magnitude that AbsMag did
\* not give (the extinction Star::setExtinction stores is not modelled);
\* at the origin the extinction counts as 0
WithExtinction(star, starData, m) ==
    IF /\ m.ok
       /\ IsSome(starData.Extinction)
       /\ Norm(star.position) # 0
       /\ TheValue(starData.Extinction) # 0
       /\ ~IsSome(starData.AbsMag)
    THEN [ok |-> TRUE, absMag |-> <<"less", m.absMag, TheValue(starData.Extinction)>>]
    ELSE m

\* lines 1094-1144: the absolute magnitude, or failure
StarMagnitude(star, disposition, starData, isBarycenter) ==
    IF isBarycenter THEN [ok |-> TRUE, absMag |-> <<"abs", 30>>]
    ELSE WithExtinction(star, starData, MagnitudeGiven(star, disposition, starData))

\* lines 813-953: the details createStar goes on with. heap1 is the heap
\* before the clone, heap the heap after the setters ran, details the record
\* the star is to point to.
createStarDetails(heap, star, disposition, starData, d0) ==
    LET modifyExistingDetails == ModifyExistingDetails(heap, star, disposition)
        existingDetails == star.details
        heap1 == IF modifyExistingDetails /\ d0 # nullptr
                 THEN MergeSpectralType(heap, existingDetails, d0)
                 ELSE heap
        d1 == IF disposition = "Modify" /\ (modifyExistingDetails \/ d0 = nullptr)
              THEN existingDetails
              ELSE d0
        hasTemperature == /\ IsSome(starData.Temperature)
                          /\ TheValue(starData.Temperature) > 0
        extended == \/ IsSome(starData.Texture)
                    \/ IsSome(starData.Radius)
                    \/ hasTemperature
                    \/ IsSome(starData.Orbit)
        cl == IF extended THEN CloneDetails(heap1, d1, modifyExistingDetails)
              ELSE [heap |-> heap1, details |-> d1]
    IN  [modifyExistingDetails |-> modifyExistingDetails,
         heap1 |-> heap1,
         heap |-> IF extended
                  THEN [cl.heap EXCEPT
                           ![cl.details] = SetExtended(@, starData, hasTemperature)]
                  ELSE cl.heap,
         details |-> cl.details]

\* lines 969-999: the pending list after the pair was queued, and the
\* barycenter findWhileLoading finds for it
createStarBarycenter(s, catalogNumber, starData, barycenterCatNo) ==
    IF QueuesBarycenter(starData, barycenterCatNo)
    THEN [barycenters |-> Append(s.barycenters,
                                 [catNo |-> catalogNumber,
                                  barycenterCatNo |-> barycenterCatNo]),
          barycenter |-> findWhileLoading(s, barycenterCatNo)]
    ELSE [barycenters |-> s.barycenters, barycenter |-> nullptr]

\* lines 1007-1150: index and details are set, then position and magnitude
createStarFields(s, star, disposition, catalogNumber, starData, isBarycenter, dt, bc) ==
    LET star1 == [star EXCEPT
                     !.details = IF dt.modifyExistingDetails THEN @ ELSE dt.details,
                     !.index = IF disposition # "Modify" THEN catalogNumber ELSE @]
        pos == StarPosition(star1, disposition, starData, bc.barycenter # nullptr,
                            IF bc.barycenter # nullptr
                            THEN s.unsortedStars[bc.barycenter].position
                            ELSE Origin)
        star2 == [star1 EXCEPT !.position = pos.position]
        mag == StarMagnitude(star2, disposition, starData, isBarycenter)
    IN  IF ~pos.ok
        THEN [ok |-> FALSE, star |-> star1, details |-> dt.heap,
              barycenters |-> bc.barycenters]
        ELSE IF ~mag.ok
        THEN [ok |-> FALSE, star |-> star2, details |-> dt.heap,
              barycenters |-> bc.barycenters]
        ELSE [ok |-> TRUE, star |-> [star2 EXCEPT !.absMag = mag.absMag],
              details |-> dt.heap, barycenters |-> bc.barycenters]

\* lines 955-1150, with the details dt and the barycenter bc at hand
createStarOrbit(s, star, disposition, catalogNumber, starData, isBarycenter, dt, bc) ==
    IF IsSome(starData.Orbit) /\ IsSome(starData.OrbitBarycenter)
       /\ bc.barycenter = nullptr
    THEN \* "Barycenter does not exist": a clone is deleted again
         [ok |-> FALSE, star |-> star,
          details |-> IF dt.modifyExistingDetails THEN dt.heap ELSE dt.heap1,
          barycenters |-> bc.barycenters]
    ELSE createStarFields(s, star, disposition, catalogNumber, starData,
                          isBarycenter, dt, bc)

\* lines 786-811: the details of the spectral type, nullptr when there is
\* none or it is invalid
SpectralDetails(starData, isBarycenter) ==
    IF isBarycenter THEN BarycenterKey
    ELSE IF IsSome(starData.SpectralType)
    THEN GetStarDetails(TheValue(starData.SpectralType))
    ELSE nullptr

\* createStar(star, disposition, catalogNumber, starData, path, isBarycenter)
\* on the Star object `star` (a new one, or the one of unsortedStars the
\* definition targets). Returns the result, the object as createStar leaves
\* it, and the heap of details and the pending list as it leaves them.
createStar(s, star, disposition, catalogNumber, starData, isBarycenter) ==
    LET d0 == SpectralDetails(starData, isBarycenter)
    IN  IF /\ ~isBarycenter
           /\ \/ IsSome(starData.SpectralType) /\ d0 = nullptr
              \/ ~IsSome(starData.SpectralType) /\ disposition # "Modify"
        THEN [ok |-> FALSE, star |-> star, details |-> s.details,
              barycenters |-> s.barycenters]
        ELSE createStarOrbit(s, star, disposition, catalogNumber, starData,
                 isBarycenter,
                 createStarDetails(s.details, star, disposition, starData, d0),
                 createStarBarycenter(s, catalogNumber, starData,
                                      BarycenterCatNo(s, starData)))

----------------------------------------------------------------------------
(* load: one definition of an .stc stream *)

\* string::find(':', from): the position of the first ':' at or after
\* from, Len + 1 when there is none
RECURSIVE FindColon(_, _)
FindColon(name, from) ==
    IF from > Len(name) THEN Len(name) + 1
    ELSE IF name[from] = ":" THEN from
    ELSE FindColon(name, from + 1)

\* objName.substr(0, objName.find(':'))
FirstName(objName) ==
    IF objName = <<>> THEN <<>>
    ELSE SubSeq(objName, 1, FindColon(objName, 1) - 1)

\* The loop over the names leaving after the first piece of objName
AddNamesFirstOnly(db, catalogNumber, objName, startPos) ==
    NamesDBAdd(db, catalogNumber,
               SubSeq(objName, startPos, FindColon(objName, startPos) - 1))

\* lines 1372-1385: every ':'-delimited piece of objName is handed to add()
RECURSIVE AddNames(_, _, _, _)
AddNames(db, catalogNumber, objName, startPos) ==
    LET next == FindColon(objName, startPos)
        starName == SubSeq(objName, startPos, next - 1)
        added == NamesDBAdd(db, catalogNumber, starName)
    IN  IF next > Len(objName) THEN added
        ELSE AddNames(added, catalogNumber, objName, next + 1)

\* catalogNumber = nextAutoCatalogNumber--: a new star
AllocateNumber(s) ==
    [catalogNumber |-> s.nextAutoCatalogNumber, star |-> nullptr,
     nextAutoCatalogNumber |-> (s.nextAutoCatalogNumber - 1) % (2^IndexBits)]

\* star = findWhileLoading(catalogNumber), for a known number
LookupStar(s, n) ==
    [catalogNumber |-> n,
     star |-> IF n # InvalidIndex THEN findWhileLoading(s, n) ELSE nullptr,
     nextAutoCatalogNumber |-> s.nextAutoCatalogNumber]

\* lines 1273-1280, 1292-1299: a number is allocated when there is none
AllocateOrLookup(s, n) ==
    IF n = InvalidIndex THEN AllocateNumber(s) ELSE LookupStar(s, n)

\* lines 1285-1291, 1304-1310: without a number, the first name is looked up
NumberOrFirstName(s, def) ==
    IF def.catalogNumber = InvalidIndex /\ FirstName(def.objName) # <<>>
    THEN findCatalogNumberByName(s, FirstName(def.objName))
    ELSE def.catalogNumber

\* The switch on the disposition with Add resolving a name like Replace
ResolveTargetAddByName(s, def) ==
    IF def.disposition \in {"Add", "Replace"}
    THEN AllocateOrLookup(s, NumberOrFirstName(s, def))
    ELSE LookupStar(s, NumberOrFirstName(s, def))

\* The switch on the disposition with Modify allocating a number like Replace
ResolveTargetModifyAuto(s, def) ==
    IF def.disposition = "Add"
    THEN AllocateOrLookup(s, def.catalogNumber)
    ELSE AllocateOrLookup(s, NumberOrFirstName(s, def))

\* lines 1268-1317: the catalog number the definition goes on with, the
\* star it targets (nullptr: a new star) and the counter afterwards
ResolveTarget(s, def) ==
    CASE def.disposition = "Add" -> AllocateOrLookup(s, def.catalogNumber)
      [] def.disposition = "Replace" -> AllocateOrLookup(s, NumberOrFirstName(s, def))
      [] def.disposition = "Modify" -> LookupStar(s, NumberOrFirstName(s, def))

\* map::operator[] assignment
MapPut(f, k, v) == [x \in DOMAIN f \cup {k} |-> IF x = k THEN v ELSE f[x]]

\* What a pass of the loop of load() did: whether load() returned false in
\* it (aborted), the result of createStar, and the target t it resolved
DefinitionInfo(t, ok, aborted) ==
    [aborted |-> aborted, ok |-> ok, isNewStar |-> t.star = nullptr,
     catalogNumber |-> t.catalogNumber, star |-> t.star]

\* lines 1351-1393 after createStar returned r for the target t: a new
\* star is appended and indexed, and the names are registered. createStar
\* works on the star itself when it is an existing one.
StoreStar(s1, def, t, r) ==
    LET s2 == [s1 EXCEPT !.details = r.details,
                         !.barycenters = r.barycenters,
                         !.unsortedStars = IF t.star = nullptr THEN @
                                           ELSE [@ EXCEPT ![t.star] = r.star]]
        s3 == IF r.ok /\ t.star = nullptr
              THEN [s2 EXCEPT !.unsortedStars = Append(@, r.star),
                              !.nStars = @ + 1,
                              !.stcFileCatalogNumberIndex =
                                  MapPut(@, t.catalogNumber, Len(s1.unsortedStars) + 1)]
              ELSE s2
    IN  IF r.ok /\ s1.namesDB.set /\ def.objName # <<>>
        THEN [s3 EXCEPT !.namesDB.names =
                 AddNames(NamesDBErase(@, t.catalogNumber), t.catalogNumber,
                          def.objName, 1)]
        ELSE s3

\* The result of a pass that called createStar
CreatedStar(s1, def, t, r) ==
    [s |-> StoreStar(s1, def, t, r), info |-> DefinitionInfo(t, r.ok, FALSE)]

\* lines 1319-1393 for the target t, on the database s1 in which the
\* number of t is allocated
LoadTarget(s, s1, def, t) ==
    IF def.syntax = "objectType"
    THEN [s |-> s, info |-> DefinitionInfo(t, FALSE, TRUE)]
    ELSE IF def.syntax = "value"
    THEN [s |-> s1, info |-> DefinitionInfo(t, FALSE, TRUE)]
    ELSE IF t.star = nullptr /\ def.disposition = "Modify"
    THEN [s |-> s1, info |-> DefinitionInfo(t, FALSE, FALSE)]
    ELSE CreatedStar(s1, def, t,
             createStar(s1, IF t.star = nullptr THEN NewStar
                            ELSE s1.unsortedStars[t.star],
                        def.disposition, t.catalogNumber, def.starData, ~def.isStar))

\* lines 1198-1394: one pass of the loop of load() over the definition def.
\* aborted: load() returns false here. The other fields of the result say
\* what the pass did.
LoadDefinition(s, def) ==
    LoadTarget(s, [s EXCEPT !.nextAutoCatalogNumber =
                                ResolveTarget(s, def).nextAutoCatalogNumber],
               def, ResolveTarget(s, def))

\* The result of load() from the result of the first pass and a successful
\* load of the rest
PrependInfo(info, rest) ==
    [ret |-> rest.ret, s |-> rest.s, infos |-> <<info>> \o rest.infos]

\* load(in, resourcePath) over the definitions of a stream, in order
RECURSIVE load(_, _)
\* The rest of the stream with load() giving up at a rejected definition
loadRestStopAtError(defs, r) ==
    IF r.info.aborted \/ ~r.info.ok
    THEN [ret |-> FALSE, s |-> r.s, infos |-> <<r.info>>]
    ELSE PrependInfo(r.info, load(r.s, Tail(defs)))

\* The rest of the stream after the pass with result r
loadRest(defs, r) ==
    IF r.info.aborted
    THEN [ret |-> FALSE, s |-> r.s, infos |-> <<r.info>>]
    ELSE PrependInfo(r.info, load(r.s, Tail(defs)))

load(s, defs) ==
    IF defs = <<>> THEN [ret |-> TRUE, s |-> s, infos |-> <<>>]
    ELSE loadRest(defs, LoadDefinition(s, Head(defs)))

----------------------------------------------------------------------------
(* loadBinary *)

\* A record of a binary stream as a Star, nullptr details when the packed
\* spectral type does not unpack to a class
BinaryStar(rec) ==
    [index |-> rec.catNo, position |-> rec.position, absMag |-> <<"abs", rec.absMag>>,
     details |-> GetStarDetails(rec.spectralType)]

\* lines 667-704: the stars added by the read loop, which stops at the end
\* of the stream, at a spectral type that does not decode, or at the
\* declared count
RECURSIVE ReadStars(_, _)
ReadStars(records, count) ==
    IF count = 0 \/ records = <<>> THEN <<>>
    ELSE IF BinaryStar(Head(records)).details = nullptr THEN <<>>
    ELSE <<BinaryStar(Head(records))>> \o ReadStars(Tail(records), count - 1)

AllPointers(arr) == [i \in 1..Len(arr) |-> i]

\* loadBinary that takes back the stars it read when it fails
loadBinaryRollback(s, stream, sortedIndex) ==
    IF ~stream.header \/ stream.version # "ok" \/ ~IsSome(stream.count)
    THEN [ret |-> FALSE, s |-> s]
    ELSE LET nStarsInFile == TheValue(stream.count)
             read == ReadStars(stream.records, nStarsInFile)
             s1 == [s EXCEPT !.unsortedStars = @ \o read,
                             !.nStars = @ + Len(read)]
         IN  IF Len(read) < nStarsInFile
             THEN [ret |-> FALSE, s |-> s]
             ELSE IF Len(s1.unsortedStars) > 0
             THEN [ret |-> TRUE,
                   s |-> [s1 EXCEPT !.binFileCatalogNumberIndex =
                              [state |-> "valid", ptrs |-> sortedIndex]]]
             ELSE [ret |-> TRUE, s |-> s1]

\* loadBinary(in); sortedIndex is the arrangement std::sort leaves the
\* pointer array in
loadBinary(s, stream, sortedIndex) ==
    IF ~stream.header \/ stream.version # "ok" \/ ~IsSome(stream.count)
    THEN [ret |-> FALSE, s |-> s]
    ELSE LET nStarsInFile == TheValue(stream.count)
             read == ReadStars(stream.records, nStarsInFile)
             s1 == [s EXCEPT !.unsortedStars = @ \o read,
                             !.nStars = @ + Len(read)]
         IN  IF Len(read) < nStarsInFile
             THEN [ret |-> FALSE, s |-> s1]
             ELSE IF Len(s1.unsortedStars) > 0
             THEN [ret |-> TRUE,
                   s |-> [s1 EXCEPT !.binFileCatalogNumberIndex =
                              [state |-> "valid", ptrs |-> sortedIndex]]]
             ELSE [ret |-> TRUE, s |-> s1]

\* The arrangements std::sort can leave the pointers to all of arr in
SortedPointers(arr) ==
    {p \in {[i \in 1..Len(arr) |-> q[i]] : q \in Perms(Len(arr))} :
        IsSorted(PtrKeys(arr, p))}

----------------------------------------------------------------------------
(* finish *)

\* `if (details->shared()) details = new StarDetails(*details);` of the
\* setters of Star
PrivateDetails(heap, d) ==
    IF heap[d].shared
    THEN [heap |-> Append(heap, [heap[d] EXCEPT !.shared = FALSE]),
          details |-> Len(heap) + 1]
    ELSE [heap |-> heap, details |-> d]

\* Star::setOrbitBarycenter(barycenter) on the star at position ptr of
\* stars: a shared details record is replaced by a private copy first
StarSetOrbitBarycenter(st, ptr, barycenter) ==
    LET d == st.stars[ptr].details
        cl == PrivateDetails(st.details, d)
    IN  [st EXCEPT !.details = [cl.heap EXCEPT ![cl.details].orbitBarycenter = barycenter],
                   !.stars[ptr].details = cl.details]

\* Star::addOrbitingStar(star), likewise
StarAddOrbitingStar(st, ptr, star) ==
    LET d == st.stars[ptr].details
        cl == PrivateDetails(st.details, d)
    IN  [st EXCEPT !.details = [cl.heap EXCEPT ![cl.details].orbitingStars = Append(@, star)],
                   !.stars[ptr].details = cl.details]

\* The loop over the pending pairs with the two ends of a pair exchanged
RECURSIVE ResolveBarycentersSwapped(_, _)
ResolveBarycentersSwapped(st, pending) ==
    IF pending = <<>> THEN st
    ELSE LET b == Head(pending)
             star == find(st, b.barycenterCatNo)
             barycenter == find(st, b.catNo)
             linked == IF star # nullptr /\ barycenter # nullptr
                       THEN StarAddOrbitingStar(
                                StarSetOrbitBarycenter(st, star, barycenter),
                                barycenter, star)
                       ELSE [st EXCEPT !.assertFailed = TRUE]
         IN  ResolveBarycentersSwapped(linked, Tail(pending))

\* lines 748-759: the loop over the pending pairs
RECURSIVE ResolveBarycenters(_, _)
ResolveBarycenters(st, pending) ==
    IF pending = <<>> THEN st
    ELSE LET b == Head(pending)
             star == find(st, b.catNo)
             barycenter == find(st, b.barycenterCatNo)
             linked == IF star # nullptr /\ barycenter # nullptr
                       THEN StarAddOrbitingStar(
                                StarSetOrbitBarycenter(st, star, barycenter),
                                barycenter, star)
                       ELSE [st EXCEPT !.assertFailed = TRUE]
         IN  ResolveBarycenters(linked, Tail(pending))

\* buildOctree: the stars are copied into a flat array in the order of the
\* octree traversal and unsortedStars is emptied. order[i] is the position
\* in unsortedStars of the star that lands at position i.
buildOctree(s, order) ==
    [s EXCEPT !.stars = [i \in 1..Len(s.unsortedStars) |-> s.unsortedStars[order[i]]],
              !.unsortedStars = <<>>]

\* buildIndexes: pointers to all stars, sorted by catalog number
buildIndexes(s, sortedIndex) == [s EXCEPT !.catalogNumberIndex = sortedIndex]

\* finish() with the pending pairs resolved first, in the collection the
\* stars are loaded into, and the octree and the index built afterwards
finishResolveFirst(s, order, sortedIndex) ==
    LET early == ResolveBarycenters(
                     [s EXCEPT !.stars = s.unsortedStars,
                               !.catalogNumberIndex =
                                   CHOOSE q \in SortedPointers(s.unsortedStars) : TRUE],
                     s.barycenters)
        built == buildIndexes(
                     buildOctree([early EXCEPT !.unsortedStars = early.stars], order),
                     sortedIndex)
    IN  [built EXCEPT !.binFileCatalogNumberIndex.state =
                          IF @ = "null" THEN "null" ELSE "freed",
                      !.stcFileCatalogNumberIndex = <<>>,
                      !.barycenters = <<>>, !.phase = "finished"]

\* finish()
finish(s, order, sortedIndex) ==
    LET built == buildIndexes(buildOctree(s, order), sortedIndex)
        \* delete[] binFileCatalogNumberIndex leaves the pointer as it is
        cleared == [built EXCEPT
                       !.binFileCatalogNumberIndex.state =
                           IF @ = "null" THEN "null" ELSE "freed",
                       !.stcFileCatalogNumberIndex = <<>>]
        resolved == ResolveBarycenters(cleared, cleared.barycenters)
    IN  [resolved EXCEPT !.barycenters = <<>>, !.phase = "finished"]

\* The orders the octree traversal is tried with: load order and its reverse
TraversalOrders(n) == {[i \in 1..n |-> i], [i \in 1..n |-> n + 1 - i]}

----------------------------------------------------------------------------
(* Inputs *)

Def(disposition, isStar, catalogNumber, objName, starData) ==
    [disposition |-> disposition, isStar |-> isStar, catalogNumber |-> catalogNumber,
     objName |-> objName, starData |-> starData, syntax |-> "ok"]

Coordinates(h, distance) ==
    [h EXCEPT !.RA = Some(1), !.Dec = Some(2), !.Distance = Some(distance)]

hPlain == [Coordinates(EmptyHash, 5) EXCEPT !.SpectralType = Some("G2V"), !.AbsMag = Some(4)]

hRadius == [hPlain EXCEPT !.Radius = Some(3)]

hBarycenter == Coordinates(EmptyHash, 6)

hOrbit(b) ==
    [EmptyHash EXCEPT !.SpectralType = Some("M5V"), !.AbsMag = Some(7),
                      !.Orbit = Some("orbit"), !.OrbitBarycenter = Some(<<"number", b>>)]

hNoPosition == [EmptyHash EXCEPT !.SpectralType = Some("M5V"), !.AbsMag = Some(8)]

hBadSpectralType == [hPlain EXCEPT !.SpectralType = Some("??")]

hAppMagAtOrigin ==
    [Coordinates(EmptyHash, 0) EXCEPT !.SpectralType = Some("G2V"), !.AppMag = Some(2)]

NameA == <<"A">>

StarA == Def("Add", TRUE, 10, <<>>, hPlain)
StarB == Def("Add", TRUE, 20, <<>>, hOrbit(10))

\* The definitions the text loader is run on
Defs ==
    { StarA, StarB,
      Def("Add", TRUE, InvalidIndex, NameA, hPlain),
      Def("Add", FALSE, 10, <<>>, hBarycenter),
      Def("Add", TRUE, 10, <<>>, hNoPosition),
      Def("Add", TRUE, 20, NameA, hRadius),
      Def("Add", TRUE, 10, <<>>, hAppMagAtOrigin),
      Def("Replace", TRUE, 20, <<>>, hPlain),
      Def("Replace", TRUE, 20, <<>>, hOrbit(10)),
      Def("Replace", TRUE, InvalidIndex, NameA, hPlain),
      Def("Replace", TRUE, InvalidIndex, <<>>, hPlain),
      Def("Replace", TRUE, 10, <<>>, hBadSpectralType),
      Def("Modify", TRUE, 10, <<>>, EmptyHash),
      Def("Modify", TRUE, 10, <<>>, [EmptyHash EXCEPT !.Radius = Some(9)]),
      Def("Modify", TRUE, 20, <<>>, [EmptyHash EXCEPT !.SpectralType = Some("G2V")]),
      Def("Modify", TRUE, InvalidIndex, NameA, [EmptyHash EXCEPT !.AbsMag = Some(1)]),
      Def("Modify", TRUE, InvalidIndex, <<>>, EmptyHash),
      Def("Modify", TRUE, 20, <<>>, [EmptyHash EXCEPT !.Distance = Some(7)]),
      Def("Modify", TRUE, 20, <<>>,
          [EmptyHash EXCEPT !.Orbit = Some("orbit"),
                            !.OrbitBarycenter = Some(<<"number", 10>>)]),
      [StarA EXCEPT !.syntax = "objectType"],
      [Def("Add", TRUE, InvalidIndex, NameA, hPlain) EXCEPT !.syntax = "value"] }

\* The streams of definitions load() is called with
TextStreams ==
    {<<d>> : d \in Defs}
        \cup {<<Def("Add", FALSE, 10, <<>>, hBarycenter), StarB>>, <<StarB, StarA>>}

BinaryRecord(catNo, spectralType) ==
    [catNo |-> catNo, position |-> <<3, 4, catNo>>, absMag |-> 5,
     spectralType |-> spectralType]

BinaryStream(count, records) ==
    [header |-> TRUE, version |-> "ok", count |-> count, records |-> records]

\* The streams loadBinary is called with
BinaryStreams ==
    { BinaryStream(Some(0), <<>>),
      BinaryStream(Some(1), <<BinaryRecord(10, "G2V")>>),
      BinaryStream(Some(2), <<BinaryRecord(20, "M5V"), BinaryRecord(10, "G2V")>>),
      BinaryStream(Some(2), <<BinaryRecord(10, "G2V"), BinaryRecord(10, "M5V")>>),
      BinaryStream(Some(2), <<BinaryRecord(10, "G2V")>>),
      BinaryStream(Some(2), <<BinaryRecord(20, "G2V"), BinaryRecord(10, "??")>>),
      BinaryStream(None, <<>>),
      [BinaryStream(Some(1), <<BinaryRecord(10, "G2V")>>) EXCEPT !.header = FALSE],
      [BinaryStream(Some(1), <<BinaryRecord(10, "G2V")>>) EXCEPT !.version = "bad"] }

----------------------------------------------------------------------------
(* The state machine *)

NoOp == [op |-> "none"]

\* The first automatically assigned catalog number
AutoStart == InvalidIndex - 1

InitDB ==
    /\ unsortedStars = <<>>
    /\ nStars = 0
    /\ binFileCatalogNumberIndex = [state |-> "null", ptrs |-> <<>>]
    /\ stcFileCatalogNumberIndex = <<>>
    /\ barycenters = <<>>
    /\ nextAutoCatalogNumber = AutoStart
    /\ namesDB \in {[set |-> b, names |-> {}] : b \in BOOLEAN}
    /\ details = SharedDetails
    /\ stars = <<>>
    /\ catalogNumberIndex = <<>>
    /\ phase = "loading"
    /\ assertFailed = FALSE

Init ==
    /\ InitDB
    /\ crossIndexes = [c \in 0..(MaxCatalog - 1) |-> NullSlot]
    /\ nOps = 0
    /\ last = NoOp
    /\ log = <<>>

\* The variables of the database take the fields of s
Install(s) ==
    /\ unsortedStars' = s.unsortedStars
    /\ nStars' = s.nStars
    /\ binFileCatalogNumberIndex' = s.binFileCatalogNumberIndex
    /\ stcFileCatalogNumberIndex' = s.stcFileCatalogNumberIndex
    /\ barycenters' = s.barycenters
    /\ nextAutoCatalogNumber' = s.nextAutoCatalogNumber
    /\ namesDB' = s.namesDB
    /\ details' = s.details
    /\ stars' = s.stars
    /\ catalogNumberIndex' = s.catalogNumberIndex
    /\ phase' = s.phase
    /\ assertFailed' = s.assertFailed

Record(op, keep) ==
    /\ last' = op
    /\ log' = IF keep THEN Append(log, op) ELSE log

\* loadBinary(in) on a stream of S
LoadBinary(S, keep) ==
    /\ phase = "loading"
    /\ nOps < MaxOps
    /\ \E stream \in S :
         \E sortedIndex \in SortedPointers(
                unsortedStars \o ReadStars(stream.records,
                    IF IsSome(stream.count) THEN TheValue(stream.count) ELSE 0)) :
            \E r \in {loadBinary(DB, stream, sortedIndex)} :
                /\ Len(r.s.unsortedStars) <= MaxStars
                /\ Install(r.s)
                /\ Record([op |-> "loadBinary", stream |-> stream, ret |-> r.ret], keep)
    /\ nOps' = nOps + 1
    /\ UNCHANGED crossIndexes

\* load(in, resourcePath) on a stream of S
Load(S, keep) ==
    /\ phase = "loading"
    /\ nOps < MaxOps
    /\ \E defs \in S :
         \E r \in {load(DB, defs)} :
             /\ Len(r.s.unsortedStars) <= MaxStars
             /\ Install(r.s)
             /\ Record([op |-> "load", defs |-> defs, ret |-> r.ret,
                        infos |-> r.infos], keep)
    /\ nOps' = nOps + 1
    /\ UNCHANGED crossIndexes

\* finish()
Finish(keep) ==
    /\ phase = "loading"
    /\ \E order \in TraversalOrders(Len(unsortedStars)) :
         \E sortedIndex \in SortedPointers(buildOctree(DB, order).stars) :
            Install(finish(DB, order, sortedIndex))
    /\ Record([op |-> "finish"], keep)
    /\ UNCHANGED <<crossIndexes, nOps>>

Next ==
    \/ LoadBinary(BinaryStreams, FALSE)
    \/ Load(TextStreams, FALSE)
    \/ Finish(FALSE)

Spec == Init /\ [][Next]_vars

\* loadCrossIndex(catalog, in) for a call of calls
LoadCrossIndexOf(calls) ==
    /\ \E call \in calls :
         \E sorted \in sortXIndex(call[2].pairs) :
            LET r == loadCrossIndex(crossIndexes, call[1], call[2], sorted)
            IN  /\ crossIndexes' = r.slots
                /\ last' = [op |-> "loadCrossIndex", catalog |-> call[1],
                            stream |-> call[2], ret |-> r.ret]
    /\ UNCHANGED <<dbVars, nOps, log>>

\* loadCrossIndex(catalog, in)
LoadCrossIndex == LoadCrossIndexOf(XLoads)

NextXIndex == LoadCrossIndex

InitXIndex == Init /\ namesDB.set

\* The cross-index tables alone
SpecXIndex == InitXIndex /\ [][NextXIndex]_vars

----------------------------------------------------------------------------
(* Cross-index round trip *)

LoadedCrossIndex == last.op = "loadCrossIndex" /\ last.ret

\* C7 as stated: after a successful loadCrossIndex every pair of the
\* stream is returned by both lookups: crossIndex gives the pair's external
\* number for its internal number, searchCrossIndexForCatalogNumber the
\* pair's internal number for its external number.
C7_RoundTripEveryPair ==
    LoadedCrossIndex =>
        \A i \in 1..Len(last.stream.pairs) :
            LET p == last.stream.pairs[i]
            IN  /\ crossIndex(crossIndexes, last.catalog, p.celCatalogNumber)
                       = p.catalogNumber
                /\ searchCrossIndexForCatalogNumber(crossIndexes, last.catalog,
                                                    p.catalogNumber)
                       = p.celCatalogNumber

\* C7, amended: after a successful loadCrossIndex,
\* searchCrossIndexForCatalogNumber returns a pair's internal number when
\* the stream pairs its external number with no other internal number, and
\* crossIndex returns a pair's external number when the stream pairs its
\* internal number with no other external number.
C7_RoundTripUniquePairs ==
    LoadedCrossIndex =>
        \A i \in 1..Len(last.stream.pairs) :
            LET pairs == last.stream.pairs
                p == pairs[i]
                onlyInternal == \A j \in 1..Len(pairs) :
                    pairs[j].catalogNumber = p.catalogNumber
                        => pairs[j].celCatalogNumber = p.celCatalogNumber
                onlyExternal == \A j \in 1..Len(pairs) :
                    pairs[j].celCatalogNumber = p.celCatalogNumber
                        => pairs[j].catalogNumber = p.catalogNumber
            IN  /\ onlyExternal =>
                       crossIndex(crossIndexes, last.catalog, p.celCatalogNumber)
                           = p.catalogNumber
                /\ onlyInternal =>
                       searchCrossIndexForCatalogNumber(crossIndexes, last.catalog,
                                                        p.catalogNumber)
                           = p.celCatalogNumber

\* A table of two pairs that arrived out of order was loaded and both
\* lookups answer for its second pair
C7_Witness ==
    /\ LoadedCrossIndex
    /\ last.stream.pairs = <<XEntry(2, 1), XEntry(1, 2)>>
    /\ crossIndexes[last.catalog].table = <<XEntry(1, 2), XEntry(2, 1)>>
    /\ crossIndex(crossIndexes, last.catalog, 2) = 1
    /\ searchCrossIndexForCatalogNumber(crossIndexes, last.catalog, 1) = 2

----------------------------------------------------------------------------
(* Scenarios: a few inputs, with the whole history kept in log *)

ScenarioTextStreams ==
    { <<StarA>>, <<StarB>>, <<StarA, StarB>>, <<StarB, StarA>>,
      <<Def("Add", FALSE, 10, <<>>, hBarycenter)>>,
      <<Def("Replace", TRUE, 20, <<>>, hPlain)>> }

ScenarioBinaryStreams ==
    { BinaryStream(Some(1), <<BinaryRecord(10, "G2V")>>),
      BinaryStream(Some(2), <<BinaryRecord(20, "M5V"), BinaryRecord(10, "G2V")>>),
      BinaryStream(Some(2), <<BinaryRecord(10, "G2V"), BinaryRecord(10, "M5V")>>),
      BinaryStream(Some(2), <<BinaryRecord(10, "G2V")>>) }

NextScenario ==
    \/ LoadBinary(ScenarioBinaryStreams, TRUE)
    \/ Load(ScenarioTextStreams, TRUE)
    \/ Finish(TRUE)

SpecScenario == Init /\ [][NextScenario]_vars

\* The definitions of the load() calls of a history, in order
RECURSIVE DefsLoaded(_)
DefsLoaded(history) ==
    IF history = <<>> THEN <<>>
    ELSE IF Head(history).op = "load" THEN Head(history).defs \o DefsLoaded(Tail(history))
    ELSE DefsLoaded(Tail(history))

\* Only load() calls, then finish()
TextThenFinish ==
    /\ phase = "finished"
    /\ \A i \in 1..Len(log) : log[i].op = (IF i = Len(log) THEN "finish" ELSE "load")

\* After finish(): the star find(n) returns has the star find(b) returns as
\* its barycenter, and is among that star's orbiting stars
LinkedTo(n, b) ==
    LET star == find(DB, n)
        barycenter == find(DB, b)
    IN  /\ star # nullptr
        /\ barycenter # nullptr
        /\ details[stars[star].details].orbitBarycenter = barycenter
        /\ \E i \in 1..Len(details[stars[barycenter].details].orbitingStars) :
              details[stars[barycenter].details].orbitingStars[i] = star

----------------------------------------------------------------------------
(* The pending barycenter pairs *)

\* C2: every pair that is pending when finish() runs has both its catalog
\* numbers in the final index, so neither assert of finish() fails.
C2_AssertionsHold == ~assertFailed

----------------------------------------------------------------------------
(* Shared details *)

\* C3: a shared details record is never written: the shared records stay
\* what they were at construction, and every record that createStar or
\* finish() has written to (a customized attribute, an orbit, a barycenter,
\* orbiting stars) is a non-shared clone.
C3_SharedDetailsNeverMutated ==
    /\ \A k \in SharedKeys : details[k] = SharedDetails[k]
    /\ \A k \in DOMAIN details : details[k].shared <=> k \in SharedKeys

\* finish() has linked a barycenter placeholder, whose details were the
\* shared barycenter record, and a star that had been replaced by a
\* definition without orbit, whose details were the shared record of its
\* class
C3_Witness ==
    /\ phase = "finished"
    /\ \E p, q \in 1..Len(stars) :
          /\ details[stars[p].details].orbitBarycenter = q
          /\ details[stars[p].details].orbit = None
          /\ details[stars[q].details].spectralType = "Bary"
          /\ details[stars[q].details].orbitingStars # <<>>
          /\ ~details[stars[p].details].shared
          /\ ~details[stars[q].details].shared

----------------------------------------------------------------------------
(* Catalog numbers *)

NoDuplicates(arr) ==
    \A i, j \in 1..Len(arr) : arr[i].index = arr[j].index => i = j

\* C4: no two stars of the collection have the same catalog number, while
\* loading (unsortedStars) and in the flat array finish() produces (stars).
C4_UniqueCatalogNumbers == NoDuplicates(unsortedStars) /\ NoDuplicates(stars)

\* What can be observed of a database that is being loaded: the stars with
\* the contents of their details, the names, the pending pairs, and the
\* stars finish() would make of them
StarViews(heap, arr) ==
    [i \in 1..Len(arr) |->
        [index |-> arr[i].index, position |-> arr[i].position,
         absMag |-> arr[i].absMag, details |-> heap[arr[i].details]]]

Finished(s) ==
    LET order == [i \in 1..Len(s.unsortedStars) |-> i]
    IN  finish(s, order,
               CHOOSE p \in SortedPointers(buildOctree(s, order).stars) : TRUE)

Observable(s) ==
    [nStars |-> s.nStars, stars |-> StarViews(s.details, s.unsortedStars),
     names |-> s.namesDB.names, barycenters |-> s.barycenters,
     finished |-> StarViews(Finished(s).details, Finished(s).stars)]

ReplaceDefs == {d \in Defs : d.disposition = "Replace" /\ d.syntax = "ok"}

\* C5: loading a Replace definition a second time changes nothing that can
\* be observed. (Checked in a database that has a name database, for the
\* definitions that carry a catalog number or a name and that load()
\* accepts.)
C5_ReplaceIdempotent ==
    (phase = "loading" /\ namesDB.set) =>
        \A d \in ReplaceDefs :
            LET first == load(DB, <<d>>)
                once == first.s
                twice == load(once, <<d>>).s
            IN  (/\ d.catalogNumber # InvalidIndex \/ d.objName # <<>>
                 /\ first.infos[1].ok
                 /\ Len(twice.unsortedStars) <= MaxStars)
                    => Observable(twice) = Observable(once)

\* The stars find() can return: find(n) is null or a star with number n
Findable == {find(DB, stars[i].index) : i \in 1..Len(stars)} \ {nullptr}

LoadedBinaryThenFinished ==
    /\ phase = "finished"
    /\ Len(log) = 2
    /\ log[1].op = "loadBinary"
    /\ log[1].ret

\* C6: after a successful loadBinary on a new database and finish(), find()
\* can return as many stars as the header of the stream declares.
C6_DeclaredCountFindable ==
    LoadedBinaryThenFinished =>
        Cardinality(Findable) = TheValue(log[1].stream.count)

----------------------------------------------------------------------------
(* The dispositions, as properties of a step of load() *)

\* The step is a load() of one definition with this disposition that the
\* parser accepts
TextStep(disposition) ==
    /\ last'.op = "load"
    /\ Len(last'.defs) = 1
    /\ last'.defs[1].disposition = disposition
    /\ last'.defs[1].syntax = "ok"

\* The step appends one star, with catalog number n
Appended(n) ==
    /\ unsortedStars' = Append(unsortedStars, unsortedStars'[Len(unsortedStars')])
    /\ unsortedStars'[Len(unsortedStars')].index = n
    /\ nStars' = nStars + 1

\* The step leaves the collection as it is
NoStarTouched == unsortedStars' = unsortedStars /\ nStars' = nStars

\* The step changes at most the star at ptr, which stays where it is
OnlyTouched(ptr) ==
    /\ Len(unsortedStars') = Len(unsortedStars)
    /\ nStars' = nStars
    /\ \A j \in 1..Len(unsortedStars) : j # ptr => unsortedStars'[j] = unsortedStars[j]

\* The star at ptr now carries what the definition def gives
Carries(ptr, n, def) ==
    LET star == unsortedStars'[ptr]
        h == def.starData
    IN  /\ star.index = n
        /\ star.details # nullptr
        /\ def.isStar => details'[star.details].spectralType = TheValue(h.SpectralType)
        /\ ~def.isStar => details'[star.details].spectralType = "Bary"
        /\ (def.isStar /\ IsSome(h.AbsMag)) => star.absMag = <<"abs", TheValue(h.AbsMag)>>
        /\ IsSome(h.Distance) =>
               star.position = equatorialToCelestialCart(TheValue(h.RA), TheValue(h.Dec),
                                                         TheValue(h.Distance))
        /\ IsSome(h.Radius) => details'[star.details].radius = h.Radius

\* The catalog number a Replace or Modify definition is about: the one it
\* gives, else the one its first name resolves to
NumberOf(def) ==
    IF def.catalogNumber # InvalidIndex THEN def.catalogNumber
    ELSE IF FirstName(def.objName) # <<>>
    THEN findCatalogNumberByName(DB, FirstName(def.objName))
    ELSE InvalidIndex

AddStep ==
    LET def == last'.defs[1]
        ok == last'.infos[1].ok
        n == def.catalogNumber
        found == findWhileLoading(DB, n)
    IN  TextStep("Add") =>
          /\ n = InvalidIndex =>
                /\ nextAutoCatalogNumber' = nextAutoCatalogNumber - 1
                /\ IF ok
                   THEN Appended(nextAutoCatalogNumber)
                        /\ Carries(Len(unsortedStars'), nextAutoCatalogNumber, def)
                   ELSE NoStarTouched
          /\ (n # InvalidIndex /\ found # nullptr) =>
                /\ nextAutoCatalogNumber' = nextAutoCatalogNumber
                /\ OnlyTouched(found)
                /\ ok => Carries(found, n, def)
          /\ (n # InvalidIndex /\ found = nullptr) =>
                /\ nextAutoCatalogNumber' = nextAutoCatalogNumber
                /\ IF ok
                   THEN Appended(n) /\ Carries(Len(unsortedStars'), n, def)
                   ELSE NoStarTouched

ReplaceStep ==
    LET def == last'.defs[1]
        ok == last'.infos[1].ok
        n == NumberOf(def)
        loaded == {j \in 1..Len(unsortedStars) : unsortedStars[j].index = n}
    IN  TextStep("Replace") =>
          /\ (n # InvalidIndex /\ loaded # {}) =>
                \E ptr \in loaded : OnlyTouched(ptr) /\ (ok => Carries(ptr, n, def))
          /\ n = InvalidIndex =>
                /\ nextAutoCatalogNumber' = nextAutoCatalogNumber - 1
                /\ ok => Appended(nextAutoCatalogNumber)
          /\ (n # InvalidIndex /\ loaded = {}) => (ok => Appended(n))

\* C9: a Replace definition is about the number it gives, else the number
\* its first name resolves to. When a loaded star has that number, that
\* star is overwritten where it is and the count stays; when there is no
\* number, a new star is appended under the next automatic number; when no
\* loaded star has the number, a new star with that number is appended.
\* (Stars are appended or overwritten when createStar accepts the
\* definition.)
C9_ReplaceDisposition == [][ReplaceStep]_vars

ModifyStep ==
    LET def == last'.defs[1]
        n == NumberOf(def)
    IN  (TextStep("Modify") /\ \A j \in 1..Len(unsortedStars) : unsortedStars[j].index # n)
            => /\ ~last'.infos[1].ok
               /\ UNCHANGED dbVars

\* C10: a Modify definition whose catalog number (given, or resolved from
\* its first name) no loaded star has is rejected and changes nothing: not
\* the collection or the count, no star, not the names, the pending
\* pairs, the load-time indexes or the counter of automatic numbers.
C10_ModifyMissingChangesNothing == [][ModifyStep]_vars

\* A Modify definition for number 10 has just been rejected in a database
\* that holds a star, but none with number 10
C10_Witness ==
    /\ last.op = "load"
    /\ last.defs[1].disposition = "Modify"
    /\ last.defs[1].catalogNumber = 10
    /\ ~last.infos[1].ok
    /\ last.infos[1].isNewStar
    /\ nStars = 1
    /\ unsortedStars[1].index = 20

----------------------------------------------------------------------------
(* Definitions with semantic errors *)

\* Definitions createStar or load() rejects on an empty database: no
\* spectral type, an invalid one, no position, no declination, no
\* magnitude, a Modify of a star that is not there, a barycenter that is
\* not there
SemanticErrorDefs ==
    { Def("Add", TRUE, 10, <<>>, [hPlain EXCEPT !.SpectralType = None]),
      Def("Replace", TRUE, 10, <<>>, hBadSpectralType),
      Def("Add", TRUE, 10, <<>>, hNoPosition),
      Def("Add", TRUE, 10, <<>>, [hPlain EXCEPT !.Dec = None]),
      Def("Add", TRUE, 10, <<>>, [hPlain EXCEPT !.AbsMag = None]),
      Def("Modify", TRUE, 30, <<>>, EmptyHash),
      StarB }

\* Streams in which a definition with an error comes first, in the middle
\* or last
ErrorStreams ==
    {<<bad, Def("Add", TRUE, 20, NameA, hPlain)>> : bad \in SemanticErrorDefs}
        \cup {<<StarA, bad>> : bad \in SemanticErrorDefs}
        \cup {<<Def("Add", TRUE, 10, <<>>, hNoPosition),
                Def("Modify", TRUE, 30, <<>>, EmptyHash), StarA>>}

NextErrors ==
    \/ LoadBinary(ScenarioBinaryStreams, FALSE)
    \/ Load(ErrorStreams, FALSE)
    \/ Finish(FALSE)

SpecErrors == Init /\ [][NextErrors]_vars

\* The passes of the load() call of this step that appended a star
AppendingPasses ==
    {i \in 1..Len(last'.infos) : last'.infos[i].ok /\ last'.infos[i].isNewStar}

SemanticErrorStep ==
    (/\ last'.op = "load"
     /\ \A i \in 1..Len(last'.defs) : last'.defs[i].syntax = "ok")
        => /\ last'.ret
           /\ Len(last'.infos) = Len(last'.defs)
           /\ Len(unsortedStars') = Len(unsortedStars) + Cardinality(AppendingPasses)
           /\ nStars' = nStars + Cardinality(AppendingPasses)
           /\ \A i \in 1..Len(last'.infos) :
                 (last'.infos[i].ok /\ last'.defs[i].disposition # "Modify") =>
                     \E j \in 1..Len(unsortedStars') :
                         unsortedStars'[j].index = last'.infos[i].catalogNumber

\* C11: when definitions of a stream have semantic errors (and none has a
\* syntax error), load() returns true, makes a pass for every definition of
\* the stream, appends no star for a definition it rejects, and the stars
\* of the definitions it accepts, before and after the rejected one, are in
\* the collection.
C11_SemanticErrorSkipsOneDefinition == [][SemanticErrorStep]_vars

\* load() has rejected the first definition of a stream and loaded the
\* second
C11_Witness ==
    /\ last.op = "load"
    /\ last.ret
    /\ Len(last.defs) = 2
    /\ ~last.infos[1].ok
    /\ last.infos[2].ok
    /\ last.infos[2].isNewStar
    /\ \E j \in 1..Len(unsortedStars) : unsortedStars[j].index = 20

----------------------------------------------------------------------------
(* Name resolution *)

\* Names given to findCatalogNumberByName
nA == <<"A">>
nCel7 == <<"#", "7">>
nHip5 == <<"H", "I", "P", " ", "5">>
nHip5Lower == <<"h", "i", "p", " ", "5">>
nHip5Spaces == <<"H", "I", "P", " ", " ", "5", " ">>
nTyc321 == <<"T", "Y", "C", " ", "3", "-", "2", "-", "1">>
nHD1 == <<"H", "D", " ", "1">>
nSAO2 == <<"S", "A", "O", " ", "2">>
nHip == <<"H", "I", "P", " ">>
nHipNoSpace == <<"H", "I", "P", "5">>
nTyc12 == <<"T", "Y", "C", " ", "1", "-", "2">>
nXYZ == <<"X", "Y", "Z">>

\* The names that have one of the catalog number formats, with the format
\* and the number written in them
FormNames ==
    { [name |-> nCel7, form |-> "#", number |-> 7],
      [name |-> nHip5, form |-> "HIP", number |-> 5],
      [name |-> nHip5Lower, form |-> "HIP", number |-> 5],
      [name |-> nHip5Spaces, form |-> "HIP", number |-> 5],
      [name |-> nTyc321, form |-> "TYC", number |-> 0],
      [name |-> nHD1, form |-> "HD", number |-> 1],
      [name |-> nSAO2, form |-> "SAO", number |-> 2] }

\* The names that have none
FormlessNames == {nA, nHip, nHipNoSpace, nTyc12, nXYZ, <<>>}

\* Names in one of the formats followed by a character that is not white
\* space
TrailingNames ==
    { Append(nCel7, "x"), Append(nHip5, "x"), Append(nTyc321, "x"),
      Append(nHD1, "x"), Append(nSAO2, "x"), nHip5Spaces \o <<"x">> }

LookupNames == {f.name : f \in FormNames} \cup FormlessNames \cup TrailingNames

\* A digit as a character
DigitChar(d) ==
    CASE d = 0 -> "0" [] d = 1 -> "1" [] d = 2 -> "2" [] d = 3 -> "3" [] d = 4 -> "4"
      [] d = 5 -> "5" [] d = 6 -> "6" [] d = 7 -> "7" [] d = 8 -> "8" [] d = 9 -> "9"

\* The conversion %d of a number that is not negative
RECURSIVE Decimal(_)
Decimal(n) ==
    IF n < 10 THEN <<DigitChar(n)>> ELSE Append(Decimal(n \div 10), DigitChar(n % 10))

\* fmt::sprintf("TYC %d-%d-%d", tyc1, tyc2, tyc3)
TycName(tyc1, tyc2, tyc3) ==
    TychoCatalogPrefix \o Decimal(tyc1) \o <<"-">> \o Decimal(tyc2) \o <<"-">>
        \o Decimal(tyc3)

\* The numbers Tycho names are written with
Tyc1s == {0, 3, 9999, 12345}
Tyc2s == {0, 2, 12345}
Tyc3s == {0, 1, 2}

TychoNames == {TycName(a, b, c) : a \in Tyc1s, b \in Tyc2s, c \in Tyc3s}

\* StarDatabase::MAX_HIPPARCOS_NUMBER
MAX_HIPPARCOS_NUMBER == 999999

\* catalogNumberToString without the test against MAX_HIPPARCOS_NUMBER
catalogNumberToStringTycho(catalogNumber) ==
    TycName((catalogNumber % TycFactor3) % TycFactor2,
            (catalogNumber % TycFactor3) \div TycFactor2,
            catalogNumber \div TycFactor3)

\* catalogNumberToString(catalogNumber)
catalogNumberToString(catalogNumber) ==
    IF catalogNumber <= MAX_HIPPARCOS_NUMBER
    THEN HIPPARCOSCatalogPrefix \o Decimal(catalogNumber)
    ELSE TycName((catalogNumber % TycFactor3) % TycFactor2,
                 (catalogNumber % TycFactor3) \div TycFactor2,
                 catalogNumber \div TycFactor3)

\* getStarName(star, i18n) for a star with this catalog number: a name of
\* the name database when it has one for the number
getStarName(s, catalogNumber) ==
    IF s.namesDB.set /\ \E e \in s.namesDB.names : e[1] = catalogNumber
    THEN (CHOOSE e \in s.namesDB.names : e[1] = catalogNumber)[2]
    ELSE catalogNumberToString(catalogNumber)

\* The catalog number a + b * 10000 + c * 1000000000 as an IndexNumber
TychoPacked(a, b, c) == (c * TycFactor3 + b * TycFactor2 + a) % (2^IndexBits)

\* The catalog numbers of the stars names are asked for
NamedNumbers ==
    {TychoPacked(a, b, c) : a \in Tyc1s, b \in Tyc2s, c \in Tyc3s} \cup {9, 10}

\* The name databases setNameDatabase is called with: empty, common names,
\* and names that look like catalog numbers
NameDatabases ==
    { {},
      {<<10, nA>>, <<9, nHip5>>},
      {<<11, nCel7>>, <<12, nTyc321>>, <<13, nHD1>>, <<14, nSAO2>>, <<15, nXYZ>>} }

\* The cross indexes loaded before names are looked up
NameXLoads ==
    { <<HenryDraper, XStream(<<XEntry(1, 21)>>, "none")>>,
      <<SAO, XStream(<<XEntry(2, 22), XEntry(1, 23)>>, "none")>> }

\* setNameDatabase(_namesDB)
SetNameDatabase ==
    /\ \E db \in NameDatabases :
         /\ namesDB' = [set |-> TRUE, names |-> db]
         /\ last' = [op |-> "setNameDatabase"]
    /\ UNCHANGED <<crossIndexes, unsortedStars, nStars, binFileCatalogNumberIndex,
                   stcFileCatalogNumberIndex, barycenters, nextAutoCatalogNumber,
                   details, stars, catalogNumberIndex, phase, assertFailed, nOps, log>>

\* findCatalogNumberByName(name, i18n) for a name of names
FindCatalogNumberByName(names) ==
    /\ \E name \in names :
         last' = [op |-> "findCatalogNumberByName", name |-> name,
                  ret |-> findCatalogNumberByName(DB, name)]
    /\ UNCHANGED <<crossIndexes, dbVars, nOps, log>>

\* getStarName(star, i18n) for a star with a catalog number of numbers
GetStarName(numbers) ==
    /\ \E n \in numbers :
         last' = [op |-> "getStarName", index |-> n, ret |-> getStarName(DB, n)]
    /\ UNCHANGED <<crossIndexes, dbVars, nOps, log>>

\* The names findCatalogNumberByName is called with
AllLookupNames == LookupNames \cup TychoNames

NextNames ==
    \/ GetStarName(NamedNumbers)
    \/ SetNameDatabase
    \/ LoadCrossIndexOf(NameXLoads)
    \/ FindCatalogNumberByName(AllLookupNames)

SpecNames == Init /\ [][NextNames]_vars

\* A name was just looked up
LookedUp == last.op = "findCatalogNumberByName"

\* The numbers the name database has for a name
Registered(name) ==
    IF namesDB.set THEN {e[1] : e \in {x \in namesDB.names : x[2] = name}} ELSE {}

\* What the cross index of a catalog has for an external number
XIndexed(catalog, number) ==
    IF crossIndexes[catalog].state = "null" THEN {}
    ELSE {crossIndexes[catalog].table[i].celCatalogNumber :
             i \in {j \in 1..Len(crossIndexes[catalog].table) :
                       crossIndexes[catalog].table[j].catalogNumber = number}}

\* The number a name in one of the formats stands for
FormNumber(f) ==
    CASE f.form \in {"#", "HIP"} -> {f.number}
      [] f.form = "TYC" -> {(1 * 1000000000 + 2 * 10000 + 3) % (2^IndexBits)}
      [] f.form = "HD" -> XIndexed(HenryDraper, f.number)
      [] f.form = "SAO" -> XIndexed(SAO, f.number)

\* C12: findCatalogNumberByName returns the number the name database has
\* for the name whenever it has one, also for a name in the format '#N',
\* 'HIP N', 'TYC a-b-c', 'HD N' or 'SAO N'; when the name database has
\* none (or there is no name database), a name in one of the formats gives
\* the number the format stands for, and not-found when the cross index has
\* no entry; a name in none of the formats gives not-found.
C12_NameDatabaseFirst ==
    LookedUp =>
        IF Registered(last.name) # {}
        THEN last.ret \in Registered(last.name)
        ELSE /\ \A f \in FormNames :
                   f.name = last.name =>
                       IF FormNumber(f) = {} THEN last.ret = InvalidIndex
                       ELSE last.ret \in FormNumber(f)
             /\ last.name \in FormlessNames => last.ret = InvalidIndex

\* 'HIP 5' was looked up while the name database has it for star 9
C12_Witness ==
    /\ LookedUp
    /\ last.name = nHip5
    /\ Registered(nHip5) = {9}
    /\ last.ret = 9

\* C13: a name in one of the formats '#N', 'HIP N', 'TYC a-b-c', 'HD N',
\* 'SAO N' followed by a character that is not white space, which the name
\* database does not have, is not found.
C13_TrailingCharactersRejected ==
    (LookedUp /\ last.name \in TrailingNames /\ Registered(last.name) = {})
        => last.ret = InvalidIndex

\* C14: for a name 'TYC a-b-c' that the name database does not have,
\* findCatalogNumberByName returns c * 1000000000 + b * 10000 + a, taken as
\* a catalog number of the width of IndexNumber.
C14_TychoNumber ==
    (LookedUp /\ Registered(last.name) = {}) =>
        \A a \in Tyc1s, b \in Tyc2s, c \in Tyc3s :
            last.name = TycName(a, b, c) =>
                last.ret = (c * 1000000000 + b * 10000 + a) % (2^IndexBits)

\* 'TYC 3-12345-2' was looked up
C14_Witness ==
    /\ LookedUp
    /\ last.name = TycName(3, 12345, 2)
    /\ Registered(last.name) = {}
    /\ last.ret % 10000 # 3
    /\ last.ret # InvalidIndex

\* A star without entry in the name database was just asked for its name
Synthesized ==
    /\ last.op = "getStarName"
    /\ ~(namesDB.set /\ \E e \in namesDB.names : e[1] = last.index)

----------------------------------------------------------------------------
(* The end of a cross-index stream *)

\* C16: loadCrossIndex of a stream with a valid header and version returns
\* true when the stream ends at a pair boundary, and returns false and
\* installs no table when the stream ends inside a pair, inside the external
\* number as well as inside the internal number.
C16_EndOfStreamInsidePairFails ==
    (/\ last.op = "loadCrossIndex"
     /\ last.catalog < MaxCatalog
     /\ last.stream.header
     /\ last.stream.version = "ok")
        => /\ last.stream.cut = "none" => last.ret
           /\ last.stream.cut \in {"ext", "int"} =>
                  /\ ~last.ret
                  /\ crossIndexes[last.catalog].state # "valid"

----------------------------------------------------------------------------
(* The result of loadBinary *)

\* The number of records at the start of the stream that are complete and
\* have a spectral type that decodes, up to the declared count
GoodRecords(stream) ==
    LET limit == IF TheValue(stream.count) < Len(stream.records)
                 THEN TheValue(stream.count) ELSE Len(stream.records)
        good == {k \in 0..limit :
                    \A i \in 1..k :
                        GetStarDetails(stream.records[i].spectralType) # nullptr}
    IN  CHOOSE k \in good : \A j \in good : j <= k

HeaderVersionCount(stream) ==
    stream.header /\ stream.version = "ok" /\ IsSome(stream.count)

LoadBinaryStep ==
    last'.op = "loadBinary" =>
        /\ last'.ret <=> (/\ HeaderVersionCount(last'.stream)
                          /\ GoodRecords(last'.stream) = TheValue(last'.stream.count))
        /\ (~last'.ret /\ HeaderVersionCount(last'.stream)) =>
              /\ unsortedStars' = unsortedStars \o
                    [i \in 1..GoodRecords(last'.stream) |->
                        BinaryStar(last'.stream.records[i])]
              /\ nStars' = nStars + GoodRecords(last'.stream)
              /\ binFileCatalogNumberIndex' = binFileCatalogNumberIndex

\* C17: loadBinary returns true exactly when the header and the version are
\* the expected ones and the stream holds the declared number of complete
\* records, each with a spectral type that decodes; when the records end
\* early or a spectral type does not decode, the stars read before stay in
\* unsortedStars and in nStars and binFileCatalogNumberIndex is not built.
C17_LoadBinaryResult == [][LoadBinaryStep]_vars

\* A loadBinary that failed after reading a star and left no index
C17_Witness ==
    /\ last.op = "loadBinary"
    /\ ~last.ret
    /\ HeaderVersionCount(last.stream)
    /\ GoodRecords(last.stream) = 1
    /\ Len(unsortedStars) = 1
    /\ nStars = 1
    /\ binFileCatalogNumberIndex.state = "null"

----------------------------------------------------------------------------
(* Barycenter links after finish() *)

BarycenterB1 == Def("Add", FALSE, 10, <<>>, hBarycenter)
BarycenterB2 == Def("Add", FALSE, 30, <<>>, hBarycenter)

\* Star 20 defined again, in orbit around barycenter b
StarBAround(disposition, b) == Def(disposition, TRUE, 20, <<>>, hOrbit(b))

\* The text streams with two barycenters and a star defined more than once
LinkStreams ==
    { <<BarycenterB1>>, <<BarycenterB2>>, <<BarycenterB1, BarycenterB2>>,
      <<BarycenterB1, StarB>>, <<StarB>>,
      <<StarBAround("Replace", 30)>>, <<StarBAround("Modify", 30)>>,
      <<StarBAround("Replace", 10)>>,
      <<Def("Replace", TRUE, 20, <<>>, hPlain)>>,
      <<StarB, StarBAround("Replace", 30)>>,
      <<StarB, Def("Replace", TRUE, 20, <<>>, hPlain)>> }

\* load(in, resourcePath) on a stream of S, whatever the number of stars
LoadLinked(S) ==
    /\ phase = "loading"
    /\ nOps < MaxOps
    /\ \E defs \in S :
         \E r \in {load(DB, defs)} :
             /\ Install(r.s)
             /\ Record([op |-> "load", defs |-> defs, ret |-> r.ret,
                        infos |-> r.infos], TRUE)
    /\ nOps' = nOps + 1
    /\ UNCHANGED crossIndexes

NextLinks ==
    \/ LoadLinked(LinkStreams)
    \/ Finish(TRUE)

\* Text definitions only, then finish()
SpecLinks == Init /\ [][NextLinks]_vars

\* The orbiting stars of the star at position b of stars
OrbitingStars(b) ==
    {details[stars[b].details].orbitingStars[i] :
        i \in 1..Len(details[stars[b].details].orbitingStars)}

\* C18: after finish(), for every star S and every barycenter B, the
\* barycenter of S is B exactly when the orbiting stars of B contain S,
\* whatever text definitions were loaded before, a star defined more than
\* once with different barycenters or without one included.
C18_LinksBidirectional ==
    phase = "finished" =>
        \A s \in 1..Len(stars), b \in 1..Len(stars) :
            details[stars[s].details].orbitBarycenter = b <=> s \in OrbitingStars(b)

----------------------------------------------------------------------------
(* The order of the steps of finish() *)

\* No star of the collection being loaded has a barycenter or orbiting stars
NoLinkWhileLoading ==
    \A i \in 1..Len(unsortedStars) :
        /\ details[unsortedStars[i].details].orbitBarycenter = nullptr
        /\ details[unsortedStars[i].details].orbitingStars = <<>>

\* The pending pair i resolves in the final index
Resolves(i) ==
    /\ find(DB', barycenters[i].catNo) # nullptr
    /\ find(DB', barycenters[i].barycenterCatNo) # nullptr

\* The links of the pending pair i, between the stars find() returns in the
\* final index: the barycenter has the star among its orbiting stars, and
\* the star has the barycenter unless a later pair gave it another one
LinkedInFinalIndex(i) ==
    /\ \E k \in 1..Len(details'[stars'[find(DB', barycenters[i].barycenterCatNo)].details]
                            .orbitingStars) :
           details'[stars'[find(DB', barycenters[i].barycenterCatNo)].details]
               .orbitingStars[k] = find(DB', barycenters[i].catNo)
    /\ (\A j \in (i + 1)..Len(barycenters) :
            Resolves(j) =>
                find(DB', barycenters[j].catNo) # find(DB', barycenters[i].catNo))
           => details'[stars'[find(DB', barycenters[i].catNo)].details].orbitBarycenter
                  = find(DB', barycenters[i].barycenterCatNo)

FinishStep ==
    /\ phase = "loading" => NoLinkWhileLoading
    /\ (phase = "loading" /\ phase' = "finished") =>
          /\ unsortedStars' = <<>>
          /\ \E order \in TraversalOrders(Len(unsortedStars)) :
                \A i \in 1..Len(unsortedStars) :
                    /\ Len(stars') = Len(unsortedStars)
                    /\ stars'[i].index = unsortedStars[order[i]].index
                    /\ stars'[i].position = unsortedStars[order[i]].position
          /\ catalogNumberIndex' \in SortedPointers(stars')
          /\ binFileCatalogNumberIndex'.state # "valid"
          /\ stcFileCatalogNumberIndex' = <<>>
          /\ barycenters' = <<>>
          /\ \A i \in 1..Len(barycenters) : Resolves(i) => LinkedInFinalIndex(i)

\* C19: finish() builds the octree and empties unsortedStars, builds
\* catalogNumberIndex, discards both indexes of the loading phase and only
\* then resolves the pending barycenter pairs: every pair is resolved with
\* find() in the final index, so the links are between stars of the final
\* array, and no star has a barycenter link before finish().
C19_FinishOrder == [][FinishStep]_vars

\* finish() ran with the octree traversal reversing the order of loading,
\* and star 20 is linked to its barycenter 10
C19_Witness ==
    /\ phase = "finished"
    /\ last.op = "finish"
    /\ Len(stars) = 2
    /\ stars[1].index = 20
    /\ stars[2].index = 10
    /\ LinkedTo(20, 10)
    /\ unsortedStars = <<>>
    /\ stcFileCatalogNumberIndex = <<>>

----------------------------------------------------------------------------
(* Automatically assigned catalog numbers *)

\* Definitions without catalog number: one that is accepted, one that
\* createStar rejects, one whose value does not parse, one that replaces
AutoAdd == Def("Add", TRUE, InvalidIndex, NameA, hPlain)
AutoRejected == Def("Add", TRUE, InvalidIndex, <<>>, hNoPosition)
AutoBadValue == [AutoAdd EXCEPT !.syntax = "value"]
AutoReplace == Def("Replace", TRUE, InvalidIndex, <<>>, hPlain)

\* A definition with the first number the counter gives out
ExplicitHigh == Def("Add", TRUE, AutoStart, <<>>, hPlain)

AutoTextStreams ==
    { <<AutoAdd>>, <<AutoRejected>>, <<AutoBadValue>>, <<AutoReplace>>,
      <<StarA>>, <<ExplicitHigh>>,
      <<AutoRejected, AutoAdd>>, <<AutoAdd, AutoReplace>>, <<StarA, AutoAdd>>,
      <<Def("Modify", TRUE, InvalidIndex, <<>>, hPlain), AutoAdd>> }

AutoBinaryStreams ==
    { BinaryStream(Some(1), <<BinaryRecord(10, "G2V")>>),
      BinaryStream(Some(1), <<BinaryRecord(AutoStart, "G2V")>>),
      BinaryStream(Some(1), <<BinaryRecord(AutoStart - 1, "M5V")>>) }

NextAuto ==
    \/ LoadBinary(AutoBinaryStreams, TRUE)
    \/ Load(AutoTextStreams, TRUE)
    \/ Finish(TRUE)

\* Definitions without catalog number, among binary stars and definitions
\* with the numbers the counter starts at
SpecAuto == Init /\ [][NextAuto]_vars

\* The definition takes its number from the counter: Add or Replace without
\* a number and, for Replace, without a name to look up
Allocates(def) ==
    /\ def.syntax # "objectType"
    /\ def.catalogNumber = InvalidIndex
    /\ \/ def.disposition = "Add"
       \/ def.disposition = "Replace" /\ FirstName(def.objName) = <<>>

\* The numbers a call of load() assigned from the counter, in order
RECURSIVE AutoOfCall(_, _)
AutoOfCall(defs, infos) ==
    IF infos = <<>> THEN <<>>
    ELSE (IF Allocates(Head(defs)) THEN <<Head(infos).catalogNumber>> ELSE <<>>)
             \o AutoOfCall(Tail(defs), Tail(infos))

\* The numbers assigned from the counter in a history, in order
RECURSIVE AutoAssigned(_)
AutoAssigned(history) ==
    IF history = <<>> THEN <<>>
    ELSE (IF Head(history).op = "load"
          THEN AutoOfCall(Head(history).defs, Head(history).infos) ELSE <<>>)
             \o AutoAssigned(Tail(history))

\* The numbers of the stars a history loaded from binary streams
BinaryNumbers(history) ==
    {history[j].stream.records[i].catNo :
        <<j, i>> \in {<<k, r>> \in (1..Len(history)) \X (1..MaxStars) :
                        /\ history[k].op = "loadBinary"
                        /\ HeaderVersionCount(history[k].stream)
                        /\ r <= GoodRecords(history[k].stream)}}

\* The explicit numbers of the definitions of a history that createStar
\* accepted
ExplicitNumbers(history) ==
    UNION {{history[j].defs[i].catalogNumber :
                i \in {k \in 1..Len(history[j].infos) :
                          /\ history[j].defs[k].catalogNumber # InvalidIndex
                          /\ history[j].infos[k].ok}} :
           j \in {k \in 1..Len(history) : history[k].op = "load"}}

\* C20: the catalog numbers assigned from the counter strictly decrease
\* from one assignment to the next, the assignments to definitions that
\* fail afterwards included, and none of them is the catalog number of a
\* star loaded from a binary stream or of a definition with an explicit
\* number.
C20_AutoNumbersDecreaseAndDisjoint ==
    /\ \A i \in 1..Len(AutoAssigned(log)), j \in 1..Len(AutoAssigned(log)) :
          i < j => AutoAssigned(log)[i] > AutoAssigned(log)[j]
    /\ \A i \in 1..Len(AutoAssigned(log)) :
          AutoAssigned(log)[i] \notin BinaryNumbers(log) \cup ExplicitNumbers(log)

----------------------------------------------------------------------------
(* The names of a definition *)

NameB == <<"B">>

\* The name lists of the definitions
NameLists ==
    { <<>>, NameA, NameB, <<"A", ":", "B">>, <<"A", ":", ":", "B">>, <<":">>,
      <<"B", ":">>, <<":", "A">> }

\* Definitions of star 10 and of a star without number: accepted ones, one
\* that createStar rejects and one whose value does not parse
NameListDefs ==
    { Def("Add", TRUE, 10, <<>>, hPlain),
      Def("Replace", TRUE, 10, <<>>, hPlain),
      Def("Modify", TRUE, 10, <<>>, EmptyHash),
      Def("Add", TRUE, 10, <<>>, hNoPosition),
      Def("Add", TRUE, 20, <<>>, hPlain),
      [Def("Add", TRUE, 10, <<>>, hPlain) EXCEPT !.syntax = "value"] }

NameListStreams ==
    {<<[d EXCEPT !.objName = names]>> : d \in NameListDefs, names \in NameLists}

NextNameLists ==
    \/ Load(NameListStreams, FALSE)
    \/ Finish(FALSE)

\* Definitions with lists of names
SpecNameLists == Init /\ [][NextNameLists]_vars

\* The pieces of objName between ':' that are not empty
Segments(objName) ==
    {SubSeq(objName, i, j) : <<i, j>> \in
        {<<a, b>> \in (1..Len(objName)) \X (1..Len(objName)) :
            /\ a <= b
            /\ \A k \in a..b : objName[k] # ":"
            /\ a = 1 \/ objName[a - 1] = ":"
            /\ b = Len(objName) \/ objName[b + 1] = ":"}}

NameListStep ==
    (last'.op = "load" /\ Len(last'.defs) = 1) =>
        IF /\ namesDB.set
           /\ last'.infos[1].ok
           /\ last'.defs[1].objName # <<>>
        THEN namesDB'.names =
                 {e \in namesDB.names : e[1] # last'.infos[1].catalogNumber}
                 \cup {<<last'.infos[1].catalogNumber, name>> :
                          name \in Segments(last'.defs[1].objName)}
        ELSE namesDB' = namesDB

\* C21: after a text definition that succeeds and has a list of names, the
\* names the name database has for the catalog number of the definition are
\* the pieces of the list between ':' that are not empty, and no earlier
\* name of that number; a definition that fails or has no list of names
\* leaves the name database as it was.
C21_NamesReplaced == [][NameListStep]_vars

\* Star 10, already loaded, was defined again with the list 'B:' and B is
\* the only name in the name database
C21_Witness ==
    /\ last.op = "load"
    /\ last.infos[1].ok
    /\ last.defs[1].objName = <<"B", ":">>
    /\ last.infos[1].catalogNumber = 10
    /\ ~last.infos[1].isNewStar
    /\ namesDB.names = {<<10, NameB>>}

----------------------------------------------------------------------------
(* What Modify leaves alone *)

\* The hashes of the Modify definitions
ModifyHashes ==
    { EmptyHash,
      [EmptyHash EXCEPT !.Extinction = Some(1)],
      [EmptyHash EXCEPT !.AbsMag = Some(1)],
      [EmptyHash EXCEPT !.AppMag = Some(2), !.Extinction = Some(1)],
      [EmptyHash EXCEPT !.RA = Some(8)],
      [EmptyHash EXCEPT !.Distance = Some(7)],
      [EmptyHash EXCEPT !.SpectralType = Some("M5V")],
      [EmptyHash EXCEPT !.Radius = Some(9)],
      [EmptyHash EXCEPT !.Texture = Some("tex")],
      [EmptyHash EXCEPT !.Orbit = Some("orbit"),
                        !.OrbitBarycenter = Some(<<"number", 20>>)] }

ModifyStreams ==
    { <<StarA>>, <<Def("Add", TRUE, 20, <<>>, hRadius)>>,
      <<Def("Modify", FALSE, 10, <<>>, EmptyHash)>> }
    \cup {<<Def("Modify", TRUE, 10, <<>>, h)>> : h \in ModifyHashes}

NextModify ==
    \/ LoadBinary(ScenarioBinaryStreams, FALSE)
    \/ Load(ModifyStreams, FALSE)
    \/ Finish(FALSE)

\* Modify definitions of a star loaded before
SpecModify == Init /\ [][NextModify]_vars

\* The hash has none of the keys that customize the details
NothingExtended(starData) ==
    /\ ~IsSome(starData.Texture)
    /\ ~IsSome(starData.Radius)
    /\ ~IsSome(starData.Temperature)
    /\ ~IsSome(starData.Orbit)

\* The star at position ptr before and after the step of a Modify with the
\* hash starData
ModifyKeeps(ptr, starData) ==
    /\ unsortedStars'[ptr].index = unsortedStars[ptr].index
    /\ nStars' = nStars
    /\ Len(unsortedStars') = Len(unsortedStars)
    /\ (~IsSome(starData.AbsMag) /\ ~IsSome(starData.AppMag)) =>
           unsortedStars'[ptr].absMag = unsortedStars[ptr].absMag
    /\ (/\ ~IsSome(starData.RA) /\ ~IsSome(starData.Dec) /\ ~IsSome(starData.Distance)
        /\ ~(IsSome(starData.Orbit) /\ IsSome(starData.OrbitBarycenter))) =>
           unsortedStars'[ptr].position = unsortedStars[ptr].position
    /\ (~IsSome(starData.SpectralType) /\ NothingExtended(starData)) =>
           /\ unsortedStars'[ptr].details = unsortedStars[ptr].details
           /\ details'[unsortedStars'[ptr].details] = details[unsortedStars[ptr].details]

ModifyFrameStep ==
    (TextStep("Modify") /\ last'.infos[1].ok) =>
        ModifyKeeps(last'.infos[1].star, last'.defs[1].starData)

\* C22: a Modify definition that succeeds changes neither the catalog
\* number of its star nor the number of stars; without AbsMag and AppMag
\* the absolute magnitude stays, without RA, Dec, Distance and a barycenter
\* the position stays, and without SpectralType and extended attributes
\* the star keeps its details record.
C22_ModifyFrame == [][ModifyFrameStep]_vars

----------------------------------------------------------------------------
(* The position of a star in orbit around a barycenter *)

\* Barycenter 10 and star 20 in orbit around it, and later definitions of
\* the barycenter with other coordinates
MovedStreams ==
    { <<BarycenterB1>>, <<StarB>>, <<BarycenterB1, StarB>>,
      <<Def("Modify", FALSE, 10, <<>>, [EmptyHash EXCEPT !.Distance = Some(7)])>>,
      <<Def("Modify", FALSE, 10, <<>>, EmptyHash)>>,
      <<Def("Replace", FALSE, 10, <<>>, Coordinates(EmptyHash, 9))>>,
      <<Def("Add", FALSE, 10, <<>>, Coordinates(EmptyHash, 8))>>,
      <<Def("Replace", FALSE, 10, <<>>, hBarycenter)>>,
      <<StarBAround("Replace", 10)>>, <<StarBAround("Modify", 10)>> }

NextMoved ==
    \/ Load(MovedStreams, TRUE)
    \/ Finish(TRUE)

\* A barycenter that is defined again after the star in orbit around it
SpecMoved == Init /\ [][NextMoved]_vars

\* C23: a star defined with an orbit around a barycenter that is found
\* while loading gets the position of the barycenter, without coordinates
\* of its own; and after finish() every star linked to a barycenter is at
\* the position of that barycenter, whatever definitions of the barycenter
\* came later.
C23_AtBarycenterPosition ==
    /\ (/\ phase = "loading"
        /\ last.op = "load"
        /\ last.defs[Len(last.defs)] = StarB
        /\ Len(last.infos) = Len(last.defs)
        /\ last.infos[Len(last.infos)].ok) =>
           unsortedStars[findWhileLoading(DB, 20)].position
               = unsortedStars[findWhileLoading(DB, 10)].position
    /\ phase = "finished" =>
           \A s \in 1..Len(stars), b \in 1..Len(stars) :
               details[stars[s].details].orbitBarycenter = b =>
                   stars[s].position = stars[b].position

----------------------------------------------------------------------------
(* The slot of a cross index after a failed load *)

\* C24: whatever calls of loadCrossIndex succeeded or failed, the slot of a
\* catalog kind holds no table or a valid table, never the pointer to a
\* table that was deleted, so that no lookup and no later loadCrossIndex
\* reads or deletes a destroyed table.
C24_NoDanglingTable ==
    \A catalog \in 0..(MaxCatalog - 1) : crossIndexes[catalog].state # "freed"

----------------------------------------------------------------------------
(* A definition of a loaded star that createStar rejects *)

\* load() of one definition that targets a star of the collection and that
\* createStar rejects
RejectedOnExistingStep ==
    /\ last'.op = "load"
    /\ Len(last'.defs) = 1
    /\ last'.defs[1].syntax = "ok"
    /\ ~last'.infos[1].isNewStar
    /\ ~last'.infos[1].ok

ExistingStarKeptStep ==
    RejectedOnExistingStep =>
        /\ unsortedStars' = unsortedStars
        /\ details' = details
        /\ barycenters' = barycenters

\* C25: when createStar rejects a definition that targets a star already
\* loaded (Add or Replace with its number, or Modify), the star is left as
\* it was, with its details record, catalog number, position, magnitude and
\* customized details, and no pair is added to the pending barycenters.
C25_RejectedLeavesStar == [][ExistingStarKeptStep]_vars

----------------------------------------------------------------------------
(* Lookup by catalog number while loading *)

\* The catalog numbers of the stars of the collection
LoadedNumbers == {unsortedStars[i].index : i \in 1..Len(unsortedStars)}

\* The numbers definitions and records of the inputs give to stars
ProbedNumbers == LoadedNumbers \cup {10, 20, 30}

FoundWhileLoading(n) ==
    LET ptr == findWhileLoading(DB, n)
    IN  IF n \in LoadedNumbers
        THEN ptr # nullptr /\ unsortedStars[ptr].index = n
        ELSE ptr = nullptr

\* C26: before finish(), findWhileLoading(n) returns a star of number n
\* whenever the collection holds one, whether it came from a binary stream
\* or from a text definition, and null otherwise; and the binary index is
\* sorted by catalog number after every load.
C26_FindWhileLoadingComplete ==
    phase = "loading" =>
        /\ \A n \in ProbedNumbers : FoundWhileLoading(n)
        /\ IsSorted(PtrKeys(unsortedStars, binFileCatalogNumberIndex.ptrs))

----------------------------------------------------------------------------
(* The load-time indexes after finish() *)

\* C27: after finish() the text-source map is empty and the binary index is
\* not held any more (its pointer is null), so that findWhileLoading reads
\* neither and returns null for every number, and another finish() has
\* nothing to release.
C27_IndexesDiscarded ==
    phase = "finished" =>
        /\ stcFileCatalogNumberIndex = <<>>
        /\ binFileCatalogNumberIndex.state = "null"

====
